---- MODULE Spec2Model ----
(***************************************************************************)
(* Model of the numerical optimisation engine of the repository:           *)
(*   - InnerLBFGS (adpack/optimal_control/methods/pdas_inner_solvers/      *)
(*     inner_lbfgs.py): the L-BFGS inner solver of the primal-dual active  *)
(*     set method, its history deques and its stopping rule;               *)
(*   - _MeshHandler (cestrel/geometry.py): move_mesh with its a priori and *)
(*     a posteriori checks and revert_transformation.                      *)
(*                                                                         *)
(* Real numbers are exact rationals <<n, d>> (d > 0, lowest terms).  A     *)
(* norm, which the code obtains with np.sqrt, is represented by its        *)
(* radicand: gradient_norm, gradient_norm_initial, first_gradient_norm,    *)
(* relative_norm and current_mesh_quality hold q where the code holds      *)
(* sqrt(q); comparisons of norms are decided exactly on the radicands.     *)
(***************************************************************************)
EXTENDS Integers, Sequences, FiniteSets, TLC

(***************************************************************************)
(* Exact rational arithmetic                                               *)
(***************************************************************************)
Abs(n) == IF n < 0 THEN -n ELSE n

RECURSIVE GCD(_, _)
GCD(a, b) == IF b = 0 THEN a ELSE GCD(b, a % b)

Rat(n, d) ==
  LET s == IF d < 0 THEN -1 ELSE 1
      g == GCD(Abs(n), Abs(d))
  IN  <<(s * n) \div g, (s * d) \div g>>

Zero == <<0, 1>>
One == <<1, 1>>
Two == <<2, 1>>
Half == <<1, 2>>

RAdd(a, b) ==
  LET g == GCD(a[2], b[2])
  IN  Rat(a[1] * (b[2] \div g) + b[1] * (a[2] \div g), (a[2] \div g) * b[2])
RNeg(a) == <<-a[1], a[2]>>
RSub(a, b) == RAdd(a, RNeg(b))
RMul(a, b) ==
  LET g1 == GCD(Abs(a[1]), b[2])
      g2 == GCD(Abs(b[1]), a[2])
  IN  IF a[1] = 0 \/ b[1] = 0 THEN <<0, 1>>
      ELSE <<(a[1] \div g1) * (b[1] \div g2), (a[2] \div g2) * (b[2] \div g1)>>
\* 1/b for b # 0
RInv(b) == IF b[1] < 0 THEN <<-b[2], -b[1]>> ELSE <<b[2], b[1]>>
RDiv(a, b) == RMul(a, RInv(b))
RLe(a, b) ==
  LET g == GCD(a[2], b[2])
  IN  a[1] * (b[2] \div g) <= b[1] * (a[2] \div g)
RLt(a, b) == ~RLe(b, a)
RInt(n) == <<n, 1>>

(***************************************************************************)
(* Coefficient vectors of the control space: one value per degree of       *)
(* freedom.  The fenics vector operations used by the solver.              *)
(***************************************************************************)
Dofs == {1, 2}

VecZero == <<Zero, Zero>>
VecAdd(a, b) == <<RAdd(a[1], b[1]), RAdd(a[2], b[2])>>
VecSub(a, b) == <<RSub(a[1], b[1]), RSub(a[2], b[2])>>
VecScale(c, a) == <<RMul(c, a[1]), RMul(c, a[2])>>
VecSame(a) == a

VecNeg(a) == <<RNeg(a[1]), RNeg(a[2])>>
\* vector()[idx_active] = 0.0
ZeroAt(a, idx) == <<IF 1 \in idx THEN Zero ELSE a[1], IF 2 \in idx THEN Zero ELSE a[2]>>
IntVec(a) == <<RInt(a[1]), RInt(a[2])>>

\* form_handler.scalar_product(a, b): the inner product of the control space
scalar_product(a, b) == RAdd(RMul(a[1], b[1]), RMul(a[2], b[2]))

(***************************************************************************)
(* Bounds of the model and the configurations explored                     *)
(***************************************************************************)
MaxRuns == 2
MaxSteps == 2
MaxDirectCalls == 1

\* configured values of memory_vectors and maximum_iterations_inner_pdas
MemoryVectors == 0 .. 2
MaximumIterations == 0 .. 2

\* gradients delivered by gradient_problem.solve
Gradients == {IntVec(g) : g \in {<<0, 0>>, <<1, 1>>, <<0, 2>>}}
\* index sets handed to run by the active set method
ActiveSets == {{}, {1}}
\* step lengths accepted by the line search
StepSizes == {One, Half}
\* configurations <<use_bfgs_scaling, soft_exit, <<atol, rtol, pdas_inner_tolerance>>>>
Policies == {<<FALSE, TRUE, <<One, Zero, Zero>>>>, <<TRUE, TRUE, <<Zero, Half, <<3, 2>>>>>>,
             <<TRUE, FALSE, <<One, Zero, Zero>>>>, <<FALSE, FALSE, <<Zero, Half, <<3, 2>>>>>>}

\* gradients handed to compute_search_direction by a caller other than run
DirectGradients == Gradients \cup {IntVec(<<1, 0>>)}

VARIABLES
  pc,                    \* position of the solver: idle, loop, search, update, exited
  outcome,               \* how the last run call ended
  runs,                  \* number of run calls started
  steps,                 \* number of line searches started
  direct_calls,          \* number of calls of compute_search_direction from outside run
  memory_vectors, use_bfgs_scaling, maximum_iterations, tolerance,
  atol, rtol, soft_exit,
  idx_active,            \* argument of the current run call
  iteration, relative_norm,
  gradients, reduced_gradient, gradients_prev,
  gradient_norm, gradient_norm_initial,
  first_gradient_norm, first_iteration,
  history_s, history_y, history_rho,
  storage_y, storage_s,
  search_directions, directional_derivative,
  stepsize, line_search_broken,
  flags_at_solve,        \* the has_solution flags (state, adjoint, gradient) when run last
                         \* entered gradient_problem.solve(), <<>> before the first solve
  state_has_solution, adjoint_has_solution, gradient_has_solution,
  \* _MeshHandler
  coordinates,           \* mesh.coordinates()
  old_coordinates,       \* the snapshot, Unset while the attribute does not exist
  bbtree,                \* the coordinates the spatial index was last built from
  current_mesh_quality,
  volume_change,
  transformation_container,
  moves,                 \* number of move_mesh calls
  move_result,           \* how the last call of the handler ended: none, True, False,
                         \* reverted, or the error raised
  entry_coordinates,     \* mesh.coordinates() when move_mesh was last entered
  \* state, adjoint and gradient problems
  state_solves,          \* state_problem.number_of_solves
  adjoint_solves,        \* adjoint_problem.number_of_solves
  gradient_from,         \* per control component: the state and adjoint solutions its
                         \* stored gradient was computed from, and whether the solver converged
  ksp_solves,            \* number of linear solves of the gradient problem so far
  ksp_reasons,           \* converged reasons reported during the last solve call
  solve_calls,           \* number of calls of gradient_problem.solve
  solve_result,          \* how the last solve call ended: none, returned, SystemExit
  exit_reason,           \* the reason code carried by the SystemExit, 0 without one
  \* _MeshHandler.remesh
  do_remesh,
  remesh_counter,
  temp_dict,             \* the resumption record in memory
  disk_record,           \* temp_dict.json: <<>> while not written, else <<record>>
  mesh_files,            \* the k for which mesh_k.xdmf exists in the remesh directory
  solver_iteration,      \* shape_optimization_problem.solver.iteration
  solver_gradient_norm_initial,
  output_dict,           \* solver.output_dict
  process,               \* number of process images started after the first
  loaded_record,         \* temp_dict.json as this process image found it at its start
  argv_flag,             \* whether '_cestrel_remesh_flag' is in sys.argv of this process image
  imported_mesh,         \* the mesh file import_mesh(config) read: 0 the mesh_file of the
                         \* configuration, k mesh_k.xdmf of the remesh directory
  remesh_pc,             \* position in remesh: out, tested, dumped
  remesh_result,         \* how the last remesh call ended: none, returned, Exception,
                         \* IOError, replaced
  \* _MeshHandler.__init__
  setup_config,          \* the options of section MeshQuality
  setup_pc,              \* position in __init__
  setup_work,            \* the computations made on the mesh so far, in order
  setup_result,          \* none, constructed, AssertionError
  \* _MeshHandler.compute_decreases
  angle_change,
  beta_armijo,
  decreases,             \* <<>> or <<the value last returned>>
  frobenius_solves,      \* number of solves of the Frobenius norm projection
  decrease_calls,        \* number of compute_decreases calls
  decrease_result,       \* none, returned, Exception
  \* MeshQuality
  angle_mesh,            \* per cell, its interior angles
  mesh_quality_measure,
  mesh_quality_type,
  quality_result,        \* <<>> or <<the quality last computed>>
  quality_calls          \* number of compute_mesh_quality calls

config_vars == <<memory_vectors, use_bfgs_scaling, maximum_iterations, tolerance,
                 atol, rtol, soft_exit>>
history_vars == <<history_s, history_y, history_rho>>
flag_vars == <<state_has_solution, adjoint_has_solution, gradient_has_solution>>
run_vars == <<pc, outcome, runs, steps, direct_calls, config_vars, idx_active, iteration, relative_norm,
              gradients, reduced_gradient, gradients_prev, gradient_norm,
              gradient_norm_initial, first_gradient_norm, first_iteration,
              history_vars, storage_y, storage_s, search_directions,
              directional_derivative, stepsize, line_search_broken, flags_at_solve>>
lbfgs_vars == <<run_vars, flag_vars, flags_at_solve>>
mesh_vars == <<coordinates, old_coordinates, bbtree, current_mesh_quality, volume_change,
               transformation_container, moves, move_result, entry_coordinates>>
solves_vars == <<state_solves, adjoint_solves>>
pde_vars == <<solves_vars, gradient_from, ksp_solves, ksp_reasons, solve_calls, solve_result,
              exit_reason>>
setup_vars == <<setup_config, setup_pc, setup_work, setup_result>>
decrease_vars == <<angle_change, beta_armijo, decreases, frobenius_solves, decrease_calls,
                   decrease_result>>
quality_vars == <<angle_mesh, mesh_quality_measure, mesh_quality_type, quality_result,
                  quality_calls>>
handler_vars == <<setup_vars, decrease_vars, quality_vars>>
remesh_vars == <<do_remesh, remesh_counter, temp_dict, disk_record, mesh_files,
                 solver_iteration, solver_gradient_norm_initial, output_dict, process,
                 loaded_record, argv_flag, imported_mesh,
                 remesh_pc, remesh_result>>

(***************************************************************************)
(* InnerLBFGS.compute_search_direction                                     *)
(***************************************************************************)
\* first loop of the recursion, over the history from the most recent entry
RECURSIVE ForwardPass(_, _, _)
ForwardPass(i, d, history_alpha) ==
  IF i > Len(history_s) THEN [d |-> d, history_alpha |-> history_alpha]
  ELSE LET alpha == RMul(history_rho[i], scalar_product(history_s[i], d))
       IN  ForwardPass(i + 1, VecSub(d, VecScale(alpha, history_y[i])),
                       Append(history_alpha, alpha))

NoBackwardPass(i, d, history_alpha) == d

\* second loop, from the oldest entry (deque index -1 - i) to the most recent
RECURSIVE BackwardPass(_, _, _)
BackwardPass(i, d, history_alpha) ==
  IF i >= Len(history_s) THEN d
  ELSE LET k == Len(history_s) - i
           beta == RMul(history_rho[k], scalar_product(history_y[k], d))
       IN  BackwardPass(i + 1,
                        VecAdd(d, VecScale(RSub(history_alpha[k], beta), history_s[k])),
                        history_alpha)

BfgsFactor ==
  IF use_bfgs_scaling /\ iteration > 0
  THEN RDiv(scalar_product(history_y[1], history_s[1]),
            scalar_product(history_y[1], history_y[1]))
  ELSE One

compute_search_direction_unprojected(grad, idx) ==
  IF memory_vectors > 0 /\ Len(history_s) > 0
  THEN LET fwd == ForwardPass(1, ZeroAt(grad, idx), <<>>)
           scaled == ZeroAt(VecScale(BfgsFactor, fwd.d), idx)
       IN  VecNeg(BackwardPass(0, scaled, fwd.history_alpha))
  ELSE VecNeg(grad)

compute_search_direction(grad, idx) ==
  IF memory_vectors > 0 /\ Len(history_s) > 0
  THEN LET fwd == ForwardPass(1, ZeroAt(grad, idx), <<>>)
           scaled == ZeroAt(VecScale(BfgsFactor, fwd.d), idx)
       IN  VecNeg(ZeroAt(BackwardPass(0, scaled, fwd.history_alpha), idx))
  ELSE ZeroAt(VecNeg(grad), idx)

(***************************************************************************)
(* InnerLBFGS.run, cut at its calls to the collaborators (gradient solve,  *)
(* line search), whose results are inputs                                  *)
(***************************************************************************)
\* sqrt(a) <= p + q*sqrt(b) for p, q >= 0, decided on the radicands
SqrtLe(a, p, q, b) ==
  LET lhs == RSub(RSub(a, RMul(p, p)), RMul(RMul(q, q), b))
  IN  \/ RLe(lhs, Zero)
      \/ RLe(RMul(lhs, lhs), RMul(RInt(4), RMul(RMul(p, p), RMul(RMul(q, q), b))))

\* a test that a vanishing gradient does not pass
AbsRelTestNonZero ==
  gradient_norm # Zero /\ SqrtLe(gradient_norm, atol, rtol, gradient_norm_initial)

\* gradient_norm <= atol + rtol*gradient_norm_initial
AbsRelTest == SqrtLe(gradient_norm, atol, rtol, gradient_norm_initial)

\* relative_norm*gradient_norm_initial/first_gradient_norm <= tolerance/2;
\* a zero first_gradient_norm gives inf or nan (numpy floats), which compare False
RestartTest ==
  /\ first_gradient_norm # Zero
  /\ RLe(RDiv(RMul(relative_norm, gradient_norm_initial), first_gradient_norm),
         RDiv(RMul(tolerance, tolerance), RInt(4)))

\* the negated condition of the while loop
StoppingRuleWrongly == AbsRelTest /\ RestartTest

StoppingRule == AbsRelTest \/ RestartTest

\* the history deques: appendleft, the curvature reset and pop
AppendRight(h, x) == Append(h, x)

AppendLeft(h, x) == <<x>> \o h

CurvatureReset(h, rho) == IF RLe(RDiv(One, rho), Zero) THEN <<>> ELSE h

NoPop(h, len) == h

\* len is len(self.history_s) at line 153
PopOldest(h, len) == IF len > memory_vectors THEN SubSeq(h, 1, Len(h) - 1) ELSE h

\* lines 108-112: the fallback to steepest descent
NoSafeguard(d, rg) == d

Safeguard(d, rg) == IF RLt(Zero, scalar_product(d, rg)) THEN VecNeg(rg) ELSE d

\* position of run after a failure that soft_exit can soften
AlwaysReturn(soft) == "idle"

ExitOrReturn(soft) == IF soft THEN "idle" ELSE "exited"

LatestNorm(first, norm, reference) == norm

\* lines 101-103: the reference norm is taken from the first run only
ReferenceNorm(first, norm, reference) == IF first THEN norm ELSE reference

RunClearingHistory(idx, g) ==
  /\ pc = "idle"
  /\ UNCHANGED <<mesh_vars, pde_vars, remesh_vars, handler_vars>>
  /\ runs < MaxRuns
  /\ runs' = runs + 1
  /\ idx_active' = idx
  /\ iteration' = 0
  /\ relative_norm' = One
  /\ flags_at_solve' = <<FALSE, FALSE, FALSE>>
  /\ state_has_solution' = TRUE
  /\ adjoint_has_solution' = TRUE
  /\ gradient_has_solution' = TRUE
  /\ gradients' = g
  /\ reduced_gradient' = ZeroAt(g, idx)
  /\ gradient_norm' = scalar_product(reduced_gradient', reduced_gradient')
  /\ gradient_norm_initial' = gradient_norm'
  /\ first_gradient_norm' = ReferenceNorm(first_iteration, gradient_norm', first_gradient_norm)
  /\ first_iteration' = FALSE
  /\ pc' = "loop"
  /\ history_s' = <<>>
  /\ history_y' = <<>>
  /\ history_rho' = <<>>
  /\ outcome' = "running"
  /\ UNCHANGED <<steps, direct_calls, config_vars, gradients_prev, storage_y, storage_s,
                 search_directions, directional_derivative, stepsize,
                 line_search_broken>>

\* lines 86-103, the gradient solve having returned g
Run(idx, g) ==
  /\ pc = "idle"
  /\ UNCHANGED <<mesh_vars, pde_vars, remesh_vars, handler_vars>>
  /\ runs < MaxRuns
  /\ runs' = runs + 1
  /\ idx_active' = idx
  /\ iteration' = 0
  /\ relative_norm' = One
  /\ flags_at_solve' = <<FALSE, FALSE, FALSE>>
  /\ state_has_solution' = TRUE
  /\ adjoint_has_solution' = TRUE
  /\ gradient_has_solution' = TRUE
  /\ gradients' = g
  /\ reduced_gradient' = ZeroAt(g, idx)
  /\ gradient_norm' = scalar_product(reduced_gradient', reduced_gradient')
  /\ gradient_norm_initial' = gradient_norm'
  /\ first_gradient_norm' = ReferenceNorm(first_iteration, gradient_norm', first_gradient_norm)
  /\ first_iteration' = FALSE
  /\ pc' = "loop"
  /\ outcome' = "running"
  /\ UNCHANGED <<steps, direct_calls, config_vars, history_vars, gradients_prev, storage_y, storage_s,
                 search_directions, directional_derivative, stepsize,
                 line_search_broken>>

\* lines 86-92, a linear solver of the gradient problem not converging
RunSolveFails(idx) ==
  /\ pc = "idle"
  /\ UNCHANGED <<mesh_vars, pde_vars, remesh_vars, handler_vars>>
  /\ runs < MaxRuns
  /\ runs' = runs + 1
  /\ idx_active' = idx
  /\ iteration' = 0
  /\ relative_norm' = One
  /\ flags_at_solve' = <<FALSE, FALSE, FALSE>>
  /\ state_has_solution' = TRUE
  /\ adjoint_has_solution' = TRUE
  /\ gradient_has_solution' = FALSE
  /\ pc' = "exited"
  /\ outcome' = "krylov"
  /\ UNCHANGED <<steps, direct_calls, config_vars, history_vars, gradients, reduced_gradient, gradients_prev,
                 gradient_norm, gradient_norm_initial, first_gradient_norm,
                 first_iteration, storage_y, storage_s, search_directions,
                 directional_derivative, stepsize, line_search_broken>>

\* line 105 with the stopping rule satisfied: run returns
Converge ==
  /\ pc = "loop"
  /\ UNCHANGED <<mesh_vars, pde_vars, remesh_vars, handler_vars>>
  /\ StoppingRule
  /\ pc' = "idle"
  /\ outcome' = "converged"
  /\ UNCHANGED <<runs, steps, direct_calls, config_vars, idx_active, iteration, relative_norm, gradients,
                 reduced_gradient, gradients_prev, gradient_norm, gradient_norm_initial,
                 first_gradient_norm, first_iteration, history_vars, storage_y,
                 storage_s, search_directions, directional_derivative, stepsize,
                 line_search_broken, flag_vars, flags_at_solve>>

\* lines 105-112: the loop is entered, the direction computed and safeguarded
Direction ==
  /\ pc = "loop"
  /\ UNCHANGED <<mesh_vars, pde_vars, remesh_vars, handler_vars>>
  /\ ~StoppingRule
  /\ LET d == compute_search_direction(reduced_gradient, idx_active)
     IN  /\ directional_derivative' = scalar_product(d, reduced_gradient)
         /\ search_directions' = Safeguard(d, reduced_gradient)
  /\ pc' = "search"
  /\ UNCHANGED <<outcome, runs, steps, direct_calls, config_vars, idx_active, iteration, relative_norm,
                 gradients, reduced_gradient, gradients_prev, gradient_norm,
                 gradient_norm_initial, first_gradient_norm, first_iteration,
                 history_vars, storage_y, storage_s, stepsize, line_search_broken,
                 flag_vars, flags_at_solve>>

\* line_search.search: it updates the controls in place and delivers the stepsize
SearchKeepsCaches == UNCHANGED flag_vars

\* lines 114-120 with a line search that accepts the step length t
LineSearch(t) ==
  /\ pc = "search"
  /\ UNCHANGED <<mesh_vars, pde_vars, remesh_vars, handler_vars>>
  /\ steps < MaxSteps
  /\ steps' = steps + 1
  /\ line_search_broken' = FALSE
  /\ stepsize' = t
  /\ pc' = "update"
  /\ UNCHANGED <<outcome, runs, direct_calls, config_vars, idx_active, iteration, relative_norm,
                 gradients, reduced_gradient, gradients_prev, gradient_norm,
                 gradient_norm_initial, first_gradient_norm, first_iteration,
                 history_vars, storage_y, storage_s, search_directions,
                 directional_derivative, flags_at_solve>>
  /\ SearchKeepsCaches

LineSearchFailsUnnoticed ==
  /\ pc = "search"
  /\ UNCHANGED <<mesh_vars, pde_vars, remesh_vars, handler_vars>>
  /\ line_search_broken' = TRUE
  /\ pc' = "update"
  /\ outcome' = "armijo"
  /\ UNCHANGED <<runs, steps, direct_calls, config_vars, idx_active, iteration, relative_norm, gradients,
                 reduced_gradient, gradients_prev, gradient_norm, gradient_norm_initial,
                 first_gradient_norm, first_iteration, history_vars, storage_y,
                 storage_s, search_directions, directional_derivative, stepsize,
                 flag_vars, flags_at_solve>>

\* lines 114-120 with a line search that fails
LineSearchFails ==
  /\ pc = "search"
  /\ UNCHANGED <<mesh_vars, pde_vars, remesh_vars, handler_vars>>
  /\ line_search_broken' = TRUE
  /\ pc' = ExitOrReturn(soft_exit)
  /\ outcome' = "armijo"
  /\ UNCHANGED <<runs, steps, direct_calls, config_vars, idx_active, iteration, relative_norm, gradients,
                 reduced_gradient, gradients_prev, gradient_norm, gradient_norm_initial,
                 first_gradient_norm, first_iteration, history_vars, storage_y,
                 storage_s, search_directions, directional_derivative, stepsize,
                 flag_vars, flags_at_solve>>

NoIterationLimit(it, limit) == FALSE

\* line 159
IterationLimit(it, limit) == it >= limit

\* lines 122-128, a linear solver of the gradient problem not converging
UpdateSolveFails ==
  /\ pc = "update"
  /\ UNCHANGED <<mesh_vars, pde_vars, remesh_vars, handler_vars>>
  /\ gradients_prev' = IF memory_vectors > 0 THEN reduced_gradient ELSE gradients_prev
  /\ flags_at_solve' = <<state_has_solution, FALSE, FALSE>>
  /\ adjoint_has_solution' = TRUE
  /\ gradient_has_solution' = FALSE
  /\ pc' = "exited"
  /\ outcome' = "krylov"
  /\ UNCHANGED <<runs, steps, direct_calls, config_vars, idx_active, iteration, relative_norm, gradients,
                 reduced_gradient, gradient_norm, gradient_norm_initial,
                 first_gradient_norm, first_iteration, history_vars, storage_y,
                 storage_s, search_directions, directional_derivative, stepsize,
                 line_search_broken, state_has_solution>>

\* lines 122-165, the gradient solve having returned g
Update(g) ==
  /\ pc = "update"
  /\ UNCHANGED <<mesh_vars, pde_vars, remesh_vars, handler_vars>>
  /\ gradients_prev' = IF memory_vectors > 0 THEN reduced_gradient ELSE gradients_prev
  /\ flags_at_solve' = <<state_has_solution, FALSE, FALSE>>
  /\ adjoint_has_solution' = TRUE
  /\ gradient_has_solution' = TRUE
  /\ gradients' = g
  /\ reduced_gradient' = ZeroAt(g, idx_active)
  /\ gradient_norm' = scalar_product(reduced_gradient', reduced_gradient')
  /\ relative_norm' = RDiv(gradient_norm', gradient_norm_initial)
  /\ LET y == VecSub(reduced_gradient', gradients_prev')
         s == VecScale(stepsize, search_directions)
         ys == scalar_product(y, s)
         rho == RDiv(One, ys)
         len == Len(CurvatureReset(AppendLeft(history_s, s), rho))
         limit == IterationLimit(iteration + 1, maximum_iterations)
     IN  IF memory_vectors > 0
         THEN /\ storage_y' = y
              /\ storage_s' = s
              /\ IF ys = Zero
                 THEN \* line 145 raises ZeroDivisionError
                      /\ history_y' = AppendLeft(history_y, y)
                      /\ history_s' = AppendLeft(history_s, s)
                      /\ history_rho' = history_rho
                      /\ iteration' = iteration
                      /\ pc' = "exited"
                      /\ outcome' = "zero_division"
                 ELSE /\ history_y' = PopOldest(CurvatureReset(AppendLeft(history_y, y), rho), len)
                      /\ history_s' = PopOldest(CurvatureReset(AppendLeft(history_s, s), rho), len)
                      /\ history_rho' = PopOldest(CurvatureReset(AppendLeft(history_rho, rho), rho), len)
                      /\ iteration' = iteration + 1
                      /\ pc' = IF limit THEN ExitOrReturn(soft_exit) ELSE "loop"
                      /\ outcome' = IF limit THEN "max_iter" ELSE outcome
         ELSE /\ UNCHANGED <<storage_y, storage_s, history_vars>>
              /\ iteration' = iteration + 1
              /\ pc' = IF limit THEN ExitOrReturn(soft_exit) ELSE "loop"
              /\ outcome' = IF limit THEN "max_iter" ELSE outcome
  /\ UNCHANGED <<runs, steps, direct_calls, config_vars, idx_active, gradient_norm_initial,
                 first_gradient_norm, first_iteration, search_directions,
                 directional_derivative, stepsize, line_search_broken,
                 state_has_solution>>

\* compute_search_direction called on its own between two runs
ComputeSearchDirection(grad, idx) ==
  /\ pc = "idle"
  /\ UNCHANGED <<mesh_vars, pde_vars, remesh_vars, handler_vars>>
  /\ runs = MaxRuns
  /\ direct_calls < MaxDirectCalls
  /\ direct_calls' = direct_calls + 1
  /\ search_directions' = compute_search_direction(grad, idx)
  /\ UNCHANGED <<pc, outcome, runs, steps, config_vars, idx_active, iteration, relative_norm,
                 gradients, reduced_gradient, gradients_prev, gradient_norm,
                 gradient_norm_initial, first_gradient_norm, first_iteration,
                 history_vars, storage_y, storage_s, directional_derivative, stepsize,
                 line_search_broken, flag_vars, flags_at_solve>>

(***************************************************************************)
(* _MeshHandler of cestrel/geometry.py on a mesh of two triangles.  The    *)
(* vertices lie on an integer grid; a transformation is a CG1 field, given *)
(* by its displacement at every vertex.  The handler is configured with    *)
(* the quality measure condition_number and the reduction min.             *)
(***************************************************************************)
MaxMoves == 2

\* float('inf')
Inf == <<1, 0>>

\* the value of an attribute that has not been assigned
Unset == <<>>

Vertices == 1 .. 4
\* mesh.cells(): the vertices of each cell, in ascending order
Cells == <<<<1, 2, 4>>, <<1, 3, 4>>>>
CellIds == 1 .. Len(Cells)
InitialCoordinates == <<<<0, 0>>, <<2, 0>>, <<0, 2>>, <<2, 2>>>>

\* configured values of volume_change
VolumeChanges == {Half, One, <<3, 2>>, Two, Inf}

\* the results with which a call of the handler raises
Raised == {"error", "AttributeError", "AssertionError"}

\* _MeshHandler.__setup_a_priori: assert self.volume_change > 1 for a finite value
setup_a_priori(vc) == IF vc # Inf /\ ~RLt(One, vc) THEN "AssertionError" ELSE "none"

NoDisplacement == [v \in Vertices |-> <<0, 0>>]
\* the transformations proposed to move_mesh: one vertex is displaced
Transformations ==
  {[NoDisplacement EXCEPT ![v] = d] :
     v \in {2, 4}, d \in {<<0, 1>>, <<4, 0>>, <<-2, 3>>, <<-1, -1>>}}

\* twice the signed area of the triangle a, b, c
Cross(a, b, c) == (b[1] - a[1]) * (c[2] - a[2]) - (b[2] - a[2]) * (c[1] - a[1])
CellVolume(coords, c) == Cross(coords[c[1]], coords[c[2]], coords[c[3]])

\* fenics.ALE.move(mesh, transformation)
Moved(coords, T) ==
  [v \in Vertices |-> <<coords[v][1] + T[v][1], coords[v][2] + T[v][2]>>]

\* the projection of det(Identity + grad(transformation)) onto DG0: on each cell
\* the ratio of the volumes of the moved and of the present cell
Det(T, k) == Rat(CellVolume(Moved(coordinates, T), Cells[k]), CellVolume(coordinates, Cells[k]))

RMin(S) == CHOOSE x \in S : \A z \in S : RLe(x, z)
RMax(S) == CHOOSE x \in S : \A z \in S : RLe(z, x)

\* an a priori check that lets every transformation pass
test_a_priori_always(T) == TRUE

\* an a priori check with strict bounds
test_a_priori_strict(T) ==
  volume_change # Inf =>
    \A k \in CellIds :
      RLt(RDiv(One, volume_change), Det(T, k)) /\ RLt(Det(T, k), volume_change)

\* _MeshHandler.__test_a_priori
test_a_priori(T) ==
  IF volume_change # Inf
  THEN LET x == {Det(T, k) : k \in CellIds}
           min_det == RMin(x)
           max_det == RMax(x)
       IN  RLe(RDiv(One, volume_change), min_det) /\ RLe(max_det, volume_change)
  ELSE TRUE

\* the point p lies in the closed triangle that is cell c of the indexed mesh
PointInCell(p, tree, c) ==
  LET a == tree[c[1]]
      b == tree[c[2]]
      d == tree[c[3]]
      d1 == Cross(a, b, p)
      d2 == Cross(b, d, p)
      d3 == Cross(d, a, p)
      xs == {a[1], b[1], d[1]}
      ys == {a[2], b[2], d[2]}
  IN  /\ \E lo \in xs, hi \in xs : lo <= p[1] /\ p[1] <= hi
      /\ \E lo \in ys, hi \in ys : lo <= p[2] /\ p[2] <= hi
      /\ ~((d1 < 0 \/ d2 < 0 \/ d3 < 0) /\ (d1 > 0 \/ d2 > 0 \/ d3 > 0))

\* bbtree.compute_entity_collisions(x)
compute_entity_collisions(tree, p) == {k \in CellIds : PointInCell(p, tree, Cells[k])}

\* an a posteriori check that finds nothing
self_intersections_never(coords, tree) == FALSE

\* lines 636-646: some vertex touches more cells than have it as a vertex
self_intersections(coords, tree) ==
  \E i \in Vertices :
    LET cells_idx == compute_entity_collisions(tree, coords[i])
        intersections == Cardinality(cells_idx)
        occurences == Cardinality({k \in cells_idx : \E n \in 1 .. 3 : Cells[k][n] = i})
    IN  intersections > occurences

\* sqrt(inner(jac, jac))*sqrt(inner(inv, inv)) of a cell, inverted and scaled by
\* sqrt(dim): sqrt(2)*|det J|/|J|^2, as its radicand; a singular Jacobian gives 0
CellConditionNumber(coords, c) ==
  LET p0 == coords[c[1]]
      p1 == coords[c[2]]
      p2 == coords[c[3]]
      jac == (p1[1] - p0[1]) * (p1[1] - p0[1]) + (p1[2] - p0[2]) * (p1[2] - p0[2])
             + (p2[1] - p0[1]) * (p2[1] - p0[1]) + (p2[2] - p0[2]) * (p2[2] - p0[2])
      det == CellVolume(coords, c)
  IN  IF det = 0 THEN Zero ELSE Rat(2 * det * det, jac * jac)

\* MeshQuality.min_condition_number
min_condition_number(coords) == RMin({CellConditionNumber(coords, Cells[k]) : k \in CellIds})

\* _MeshHandler.compute_mesh_quality
compute_mesh_quality(coords) == min_condition_number(coords)

\* _MeshHandler.move_mesh with __test_a_posteriori
MoveMesh(T) ==
  /\ move_result \notin Raised
  /\ moves < MaxMoves
  /\ moves' = moves + 1
  /\ entry_coordinates' = coordinates
  /\ UNCHANGED <<lbfgs_vars, pde_vars, remesh_vars, handler_vars>>
  /\ UNCHANGED volume_change
  /\ transformation_container' = IF volume_change # Inf THEN T ELSE transformation_container
  /\ IF ~test_a_priori(T)
     THEN /\ move_result' = "False"
          /\ UNCHANGED <<coordinates, old_coordinates, bbtree, current_mesh_quality>>
     ELSE /\ old_coordinates' = coordinates
          /\ IF self_intersections(Moved(coordinates, T), Moved(coordinates, T))
             THEN \* revert_transformation
                  /\ coordinates' = old_coordinates'
                  /\ bbtree' = old_coordinates'
                  /\ UNCHANGED current_mesh_quality
                  /\ move_result' = "False"
             ELSE /\ coordinates' = Moved(coordinates, T)
                  /\ bbtree' = Moved(coordinates, T)
                  /\ current_mesh_quality' = compute_mesh_quality(Moved(coordinates, T))
                  /\ move_result' = "True"

\* _MeshHandler.move_mesh, the solver of the a priori check not converging
MoveMeshSolveFails(T) ==
  /\ move_result \notin Raised
  /\ moves < MaxMoves
  /\ volume_change # Inf
  /\ moves' = moves + 1
  /\ entry_coordinates' = coordinates
  /\ transformation_container' = T
  /\ move_result' = "error"
  /\ UNCHANGED <<lbfgs_vars, pde_vars, remesh_vars, handler_vars>>
  /\ UNCHANGED <<coordinates, old_coordinates, bbtree, current_mesh_quality, volume_change>>

\* a revert that rebuilds the index and leaves the coordinates where they are
RevertWithoutRestoring ==
  /\ move_result \notin Raised
  /\ UNCHANGED <<lbfgs_vars, pde_vars, remesh_vars, handler_vars>>
  /\ UNCHANGED <<coordinates, old_coordinates, current_mesh_quality, volume_change,
                 transformation_container, moves, entry_coordinates>>
  /\ bbtree' = coordinates
  /\ move_result' = IF old_coordinates = Unset THEN "AttributeError" ELSE "reverted"

\* a revert that does nothing, silently, when there is no snapshot
RevertIgnoringMissingSnapshot ==
  /\ move_result \notin Raised
  /\ UNCHANGED <<lbfgs_vars, pde_vars, remesh_vars, handler_vars>>
  /\ UNCHANGED <<old_coordinates, current_mesh_quality, volume_change,
                 transformation_container, moves, entry_coordinates>>
  /\ coordinates' = IF old_coordinates = Unset THEN coordinates ELSE old_coordinates
  /\ bbtree' = coordinates'
  /\ move_result' = "reverted"

\* _MeshHandler.revert_transformation
RevertTransformation ==
  /\ move_result \notin Raised
  /\ UNCHANGED <<lbfgs_vars, pde_vars, remesh_vars, handler_vars>>
  /\ UNCHANGED <<old_coordinates, current_mesh_quality, volume_change,
                 transformation_container, moves, entry_coordinates>>
  /\ IF old_coordinates = Unset
     THEN \* AttributeError: the handler has no attribute old_coordinates
          /\ move_result' = "AttributeError"
          /\ UNCHANGED <<coordinates, bbtree>>
     ELSE /\ coordinates' = old_coordinates
          /\ bbtree' = old_coordinates
          /\ move_result' = "reverted"

(***************************************************************************)
(* GradientProblem.solve and ShapeGradientProblem.solve                    *)
(***************************************************************************)
\* bound on the number of calls of solve
MaxSolveCalls == 3

\* the control components, each with its own linear solver
Controls == 1 .. 2

\* converged reasons a linear solver reports: converged (2), diverged (-3, -9)
Reasons == {2, -3, -9}
ReasonSeqs == [Controls -> Reasons]

\* state_problem.solve() and adjoint_problem.solve(): a solve is performed, and
\* counted, only while the flag of the problem is False
number_of_solves(has_solution, n) == IF has_solution THEN n ELSE n + 1

AlwaysSolve(has_solution) == TRUE

\* line 77: the linear solves are performed only while has_solution is False
NeedsSolve(has_solution) == ~has_solution

NoFailure(r) == 0

\* lines 78-84: the first component whose solver reports a negative reason, 0 if none
FirstFailure(r) ==
  IF \E i \in Controls : r[i] < 0
    THEN CHOOSE i \in Controls : r[i] < 0 /\ \A j \in Controls : r[j] < 0 => i <= j
    ELSE 0

\* a client setting state_problem.has_solution = False
InvalidateState ==
  /\ solve_result # "SystemExit"
  /\ state_has_solution' = FALSE
  /\ UNCHANGED <<adjoint_has_solution, gradient_has_solution>>
  /\ UNCHANGED <<run_vars, mesh_vars, pde_vars, remesh_vars, handler_vars>>

\* a client setting adjoint_problem.has_solution = False
InvalidateAdjoint ==
  /\ solve_result # "SystemExit"
  /\ adjoint_has_solution' = FALSE
  /\ UNCHANGED <<state_has_solution, gradient_has_solution>>
  /\ UNCHANGED <<run_vars, mesh_vars, pde_vars, remesh_vars, handler_vars>>

\* a client setting gradient_problem.has_solution = False
InvalidateGradient ==
  /\ solve_result # "SystemExit"
  /\ gradient_has_solution' = FALSE
  /\ UNCHANGED <<state_has_solution, adjoint_has_solution>>
  /\ UNCHANGED <<run_vars, mesh_vars, pde_vars, remesh_vars, handler_vars>>

\* solve(), the linear solver of component i reporting r[i] if it is run
GradientSolve(r) ==
  /\ solve_result # "SystemExit"
  /\ solve_calls < MaxSolveCalls
  /\ solve_calls' = solve_calls + 1
  /\ state_solves' = number_of_solves(state_has_solution, state_solves)
  /\ adjoint_solves' = number_of_solves(adjoint_has_solution, adjoint_solves)
  /\ state_has_solution' = TRUE
  /\ adjoint_has_solution' = TRUE
  /\ LET f == FirstFailure(r)
         current(ok) == [state |-> state_solves', adjoint |-> adjoint_solves', converged |-> ok]
     IN  IF ~NeedsSolve(gradient_has_solution)
           THEN /\ ksp_reasons' = <<>>
                /\ solve_result' = "returned"
                /\ UNCHANGED <<gradient_from, ksp_solves, gradient_has_solution, exit_reason>>
           ELSE IF f = 0
             THEN /\ gradient_from' = [i \in Controls |-> current(TRUE)]
                  /\ ksp_solves' = ksp_solves + Cardinality(Controls)
                  /\ ksp_reasons' = r
                  /\ gradient_has_solution' = TRUE
                  /\ solve_result' = "returned"
                  /\ UNCHANGED exit_reason
             ELSE /\ gradient_from' = [i \in Controls |->
                                         IF i <= f THEN current(i < f) ELSE gradient_from[i]]
                  /\ ksp_solves' = ksp_solves + f
                  /\ ksp_reasons' = SubSeq(r, 1, f)
                  /\ gradient_has_solution' = FALSE
                  /\ solve_result' = "SystemExit"
                  /\ exit_reason' = r[f]
  /\ UNCHANGED <<run_vars, mesh_vars, remesh_vars, handler_vars>>

(***************************************************************************)
(* _MeshHandler.remesh                                                     *)
(***************************************************************************)
\* bounds on the outer iterations of the shape solver and on the remeshes
MaxOuterIterations == 3
MaxRemeshes == 2

\* the four series of solver.output_dict
SeriesNames == {"cost_function_value", "gradient_norm", "stepsize", "MeshQuality"}
EmptySeries == [n \in SeriesNames |-> <<>>]

\* temp_dict of a run that was not started by a remesh; a key that is absent is <<>>
FreshRecord ==
  [remesh_counter |-> <<>>, mesh_file |-> 0, gmsh_file |-> 0, iteration_counter |-> 0,
   gradient_norm_initial |-> Zero, output_dict |-> <<>>]

\* temp_dict.get(key, default)
Get(entry, default) == IF entry = <<>> THEN default ELSE entry[1]

KeepAll(series) == series

\* series[:-1]
DropLast(series) == IF Len(series) = 0 THEN <<>> ELSE SubSeq(series, 1, Len(series) - 1)

NeverStalled(recorded, current) == FALSE

\* line 775: the geometry of the recorded iteration is remeshed again
Stalled(recorded, current) == recorded = current

StallOutcomeSoft(soft) == IF soft THEN "returned" ELSE "Exception"

\* line 776
StallOutcome(soft) == "Exception"

\* the remesh calls that ended the run
RemeshRaised == {"Exception", "IOError"}

\* one iteration of the shape solver appending to its series
OuterIteration ==
  /\ remesh_pc = "out"
  /\ remesh_result \notin RemeshRaised
  /\ solver_iteration < MaxOuterIterations
  /\ solver_iteration' = solver_iteration + 1
  /\ output_dict' = [n \in SeriesNames |-> Append(output_dict[n], solver_iteration')]
  /\ solver_gradient_norm_initial' =
       IF solver_iteration = 0 THEN One ELSE solver_gradient_norm_initial
  /\ state_solves' = state_solves + 1
  /\ adjoint_solves' = adjoint_solves + 1
  /\ UNCHANGED <<do_remesh, remesh_counter, temp_dict, disk_record, mesh_files, process,
                 loaded_record, argv_flag, imported_mesh, remesh_pc, remesh_result>>
  /\ UNCHANGED <<gradient_from, ksp_solves, ksp_reasons, solve_calls, solve_result, exit_reason>>
  /\ UNCHANGED <<lbfgs_vars, mesh_vars, handler_vars>>

\* lines 736-776: up to the test for a repeated remesh
RemeshBegin ==
  /\ remesh_pc = "out"
  /\ remesh_result \notin RemeshRaised
  /\ remesh_counter < MaxRemeshes
  /\ IF ~do_remesh
       THEN /\ remesh_result' = "returned"
            /\ UNCHANGED <<remesh_counter, temp_dict, mesh_files, remesh_pc>>
       ELSE /\ remesh_counter' = remesh_counter + 1
            /\ mesh_files' = mesh_files \cup {remesh_counter'}
            /\ temp_dict' =
                 [temp_dict EXCEPT
                    !.output_dict =
                       <<[state_solves |-> state_solves,
                          adjoint_solves |-> adjoint_solves,
                          iterations |-> solver_iteration,
                          series |-> [n \in SeriesNames |-> DropLast(output_dict[n])]]>>,
                    !.remesh_counter = <<remesh_counter'>>,
                    !.mesh_file = remesh_counter',
                    !.gmsh_file = remesh_counter']
            /\ IF Stalled(temp_dict.iteration_counter, solver_iteration)
                 THEN /\ remesh_result' = StallOutcome(soft_exit)
                      /\ remesh_pc' = "out"
                 ELSE /\ remesh_result' = "none"
                      /\ remesh_pc' = "tested"
  /\ UNCHANGED <<do_remesh, disk_record, solver_iteration, solver_gradient_norm_initial,
                 output_dict, process, loaded_record>>
  /\ UNCHANGED <<argv_flag, imported_mesh>>
  /\ UNCHANGED <<lbfgs_vars, mesh_vars, pde_vars, handler_vars>>

\* lines 778-784: the counters are recorded and the record is written to temp_dict.json
RemeshDump ==
  /\ remesh_pc = "tested"
  /\ temp_dict' = [temp_dict EXCEPT !.iteration_counter = solver_iteration,
                                    !.gradient_norm_initial = solver_gradient_norm_initial]
  /\ disk_record' = <<temp_dict'>>
  /\ remesh_pc' = "dumped"
  /\ UNCHANGED <<do_remesh, remesh_counter, mesh_files, solver_iteration,
                 solver_gradient_norm_initial, output_dict, process, loaded_record,
                 remesh_result>>
  /\ UNCHANGED <<argv_flag, imported_mesh>>
  /\ UNCHANGED <<lbfgs_vars, mesh_vars, pde_vars, handler_vars>>

\* lines 778-784, the file being opened for writing and the write failing
RemeshDumpFails ==
  /\ remesh_pc = "tested"
  /\ temp_dict' = [temp_dict EXCEPT !.iteration_counter = solver_iteration,
                                    !.gradient_norm_initial = solver_gradient_norm_initial]
  /\ disk_record' = <<>>
  /\ remesh_pc' = "out"
  /\ remesh_result' = "IOError"
  /\ UNCHANGED <<do_remesh, remesh_counter, mesh_files, solver_iteration,
                 solver_gradient_norm_initial, output_dict, process, loaded_record>>
  /\ UNCHANGED <<argv_flag, imported_mesh>>
  /\ UNCHANGED <<lbfgs_vars, mesh_vars, pde_vars, handler_vars>>

\* mesh_file of section Mesh of the configuration
ConfiguredMeshFile == 0

ImportConfiguredMesh(remesh, flag, record) == ConfiguredMeshFile

\* import_mesh(config), lines 73-85: which mesh file is read
import_mesh(remesh, flag, record) ==
  IF ~remesh THEN ConfiguredMeshFile
  ELSE IF ~flag THEN ConfiguredMeshFile
  ELSE record[1].mesh_file

\* what the re-invoked program restores from the record it loads
ResumedSolver(record) ==
  [iteration |-> record.iteration_counter,
   gradient_norm_initial |-> record.gradient_norm_initial,
   output_dict |-> record.output_dict[1].series,
   state_solves |-> record.output_dict[1].state_solves,
   adjoint_solves |-> record.output_dict[1].adjoint_solves]

\* lines 786-789: the process image is replaced by the program started anew, which
\* loads temp_dict.json (lines 83-84) and takes its remesh counter from it (line 400)
RemeshExec ==
  /\ remesh_pc = "dumped"
  /\ process' = process + 1
  /\ loaded_record' = disk_record
  /\ temp_dict' = disk_record[1]
  /\ remesh_counter' = Get(temp_dict'.remesh_counter, 0)
  /\ LET resumed == ResumedSolver(temp_dict')
     IN  /\ solver_iteration' = resumed.iteration
         /\ solver_gradient_norm_initial' = resumed.gradient_norm_initial
         /\ output_dict' = resumed.output_dict
         /\ state_solves' = resumed.state_solves
         /\ adjoint_solves' = resumed.adjoint_solves
  /\ argv_flag' = TRUE
  /\ imported_mesh' = import_mesh(do_remesh, argv_flag', disk_record)
  /\ remesh_pc' = "out"
  /\ remesh_result' = "replaced"
  /\ UNCHANGED <<do_remesh, disk_record, mesh_files>>
  /\ UNCHANGED <<gradient_from, ksp_solves, ksp_reasons, solve_calls, solve_result, exit_reason>>
  /\ UNCHANGED <<lbfgs_vars, mesh_vars, handler_vars>>

(***************************************************************************)
(* _MeshHandler.__init__: the options of section MeshQuality               *)
(***************************************************************************)
\* tol_lower and tol_upper as configured
Tolerances == {<<Rat(1, 20), Rat(1, 10)>>, <<Rat(1, 10), Rat(1, 10)>>, <<Rat(1, 5), Rat(1, 10)>>}

Measures == {"skewness", "maximum_angle", "radius_ratios", "condition_number"}
ConfiguredMeasures == Measures \cup {"aspect_ratio"}

Types == {"min", "minimum", "avg", "average"}
ConfiguredTypes == Types \cup {"max"}

\* angle_change as configured
ConfiguredAngleChanges == {Inf, One, Zero, RInt(-1)}

\* the fallbacks of lines 368-385
DefaultConfig ==
  [tol_lower |-> Rat(1, 20), tol_upper |-> Rat(1, 10), measure |-> "skewness", type |-> "min",
   angle_change |-> Inf, volume_change |-> Inf]

Configs ==
  {[tol_lower |-> t[1], tol_upper |-> t[2], measure |-> m, type |-> ty,
    angle_change |-> a, volume_change |-> v] :
      t \in Tolerances, m \in ConfiguredMeasures, ty \in ConfiguredTypes,
      a \in ConfiguredAngleChanges, v \in VolumeChanges}

\* what compute_mesh_quality does on the mesh: the condition number measures
\* solve a projection problem (lines 1214, 1262)
QualityWork(measure) ==
  IF measure = "condition_number" THEN <<"mesh_quality", "projection_solve">>
  ELSE <<"mesh_quality">>

\* lines 368-380: the initial radius ratios, then the check of the tolerances
SetupTolerances ==
  /\ setup_pc = "start"
  /\ setup_work' = Append(setup_work, "radius_ratios")
  /\ IF RLt(setup_config.tol_lower, setup_config.tol_upper)
       THEN setup_pc' = "measure" /\ UNCHANGED setup_result
       ELSE setup_pc' = "failed" /\ setup_result' = "AssertionError"
  /\ UNCHANGED <<setup_config, decrease_vars, quality_vars>>
  /\ UNCHANGED <<lbfgs_vars, mesh_vars, pde_vars, remesh_vars>>

\* lines 381-387: the checks of measure and type
SetupMeasure ==
  /\ setup_pc = "measure"
  /\ IF setup_config.measure \in Measures /\ setup_config.type \in Types
       THEN setup_pc' = "quality" /\ UNCHANGED setup_result
       ELSE setup_pc' = "failed" /\ setup_result' = "AssertionError"
  /\ UNCHANGED <<setup_config, setup_work, decrease_vars, quality_vars>>
  /\ UNCHANGED <<lbfgs_vars, mesh_vars, pde_vars, remesh_vars>>

\* lines 389-390: the quality of the initial mesh
SetupQuality ==
  /\ setup_pc = "quality"
  /\ setup_work' = setup_work \o QualityWork(setup_config.measure)
  /\ setup_pc' = "decrease"
  /\ UNCHANGED <<setup_config, setup_result, decrease_vars, quality_vars>>
  /\ UNCHANGED <<lbfgs_vars, mesh_vars, pde_vars, remesh_vars>>

\* line 392, __setup_decrease_computation (472-503)
SetupDecrease ==
  /\ setup_pc = "decrease"
  /\ IF RLt(Zero, setup_config.angle_change)
       THEN setup_pc' = "a_priori" /\ UNCHANGED setup_result
       ELSE setup_pc' = "failed" /\ setup_result' = "AssertionError"
  /\ UNCHANGED <<setup_config, setup_work, decrease_vars, quality_vars>>
  /\ UNCHANGED <<lbfgs_vars, mesh_vars, pde_vars, remesh_vars>>

\* line 393, __setup_a_priori (559-575)
SetupAPriori ==
  /\ setup_pc = "a_priori"
  /\ IF setup_a_priori(setup_config.volume_change) = "none"
       THEN setup_pc' = "done" /\ setup_result' = "constructed"
       ELSE setup_pc' = "failed" /\ setup_result' = "AssertionError"
  /\ UNCHANGED <<setup_config, setup_work, decrease_vars, quality_vars>>
  /\ UNCHANGED <<lbfgs_vars, mesh_vars, pde_vars, remesh_vars>>

(***************************************************************************)
(* _MeshHandler.compute_decreases (cestrel/geometry.py, 504-547)           *)
(*                                                                         *)
(* The Frobenius norm that the Krylov solve delivers (np.max of the DG0    *)
(* projection of |grad(search_direction)|, hence never negative) is an     *)
(* input of the action.  The returned float is kept as a rational; -inf    *)
(* is <<-1, 0>>.                                                           *)
(***************************************************************************)
MaxDecreaseCalls == 2

NegInf == <<-1, 0>>

\* angle_change as the constructor admits it (assert angle_change > 0, line 480)
AngleChanges == {Rat(1, 4), Half, One, Two, Inf}
BetaArmijos == {Two, RInt(3), RInt(4)}
DecreaseStepsizes == {Half, One, Two}
FrobeniusNorms == {Zero, Half, One, RInt(3), RInt(8)}

\* angle_change / stepsize / frobenius_norm in floating point: x / 0 is inf for x > 0
AngleRatio(ac, step, frobenius_norm) ==
  IF frobenius_norm = Zero THEN Inf ELSE RDiv(RDiv(ac, step), frobenius_norm)

\* least k >= 1 with a * beta^k >= 1 (0 < a < 1 < beta)
RECURSIVE HalvingsUp(_, _)
HalvingsUp(a, beta) ==
  IF RLe(One, RMul(a, beta)) THEN 1 ELSE 1 + HalvingsUp(RMul(a, beta), beta)

\* greatest j >= 0 with a / beta^j >= 1 (a >= 1, beta > 1)
RECURSIVE HalvingsDown(_, _)
HalvingsDown(a, beta) ==
  IF RLe(One, RDiv(a, beta)) THEN 1 + HalvingsDown(RDiv(a, beta), beta) ELSE 0

\* np.ceil(np.log(a) / np.log(1 / beta)) for beta > 1: the least integer k with a * beta^k >= 1
CeilLog(a, beta) ==
  IF a = Inf THEN NegInf
  ELSE IF RLe(One, a) THEN RInt(-HalvingsDown(a, beta))
  ELSE RInt(HalvingsUp(a, beta))

KeepSign(k) == k

\* np.maximum(k, 0.0)
MaximumWithZero(k) == IF RLt(k, Zero) THEN Zero ELSE k

\* lines 531-547 with a Krylov solve that converges
ComputeDecreases(step, frobenius_norm) ==
  /\ decrease_calls < MaxDecreaseCalls
  /\ RLt(Zero, angle_change)
  /\ decrease_calls' = decrease_calls + 1
  /\ decrease_result' = "returned"
  /\ IF angle_change = Inf
       THEN /\ decreases' = <<Zero>>
            /\ UNCHANGED frobenius_solves
       ELSE /\ frobenius_solves' = frobenius_solves + 1
            /\ decreases' = <<MaximumWithZero(CeilLog(AngleRatio(angle_change, step, frobenius_norm),
                                                      beta_armijo))>>
  /\ UNCHANGED <<angle_change, beta_armijo, setup_vars, quality_vars>>
  /\ UNCHANGED <<lbfgs_vars, mesh_vars, pde_vars, remesh_vars>>

\* lines 531-541 with a Krylov solve that diverges
ComputeDecreasesSolveFails ==
  /\ decrease_calls < MaxDecreaseCalls
  /\ RLt(Zero, angle_change)
  /\ angle_change # Inf
  /\ decrease_calls' = decrease_calls + 1
  /\ frobenius_solves' = frobenius_solves + 1
  /\ decrease_result' = "Exception"
  /\ decreases' = <<>>
  /\ UNCHANGED <<angle_change, beta_armijo, setup_vars, quality_vars>>
  /\ UNCHANGED <<lbfgs_vars, mesh_vars, pde_vars, remesh_vars>>

(***************************************************************************)
(* MeshQuality (cestrel/geometry.py, 790-1115) for triangular meshes       *)
(*                                                                         *)
(* A cell is the triple of its interior angles at the vertices p0, p1, p2, *)
(* in units of pi / 12 (they add up to pi); a mesh is a sequence of cells. *)
(* acos of the scalar product of two unit vectors is the angle between     *)
(* them, so angles_triangle is computed exactly from the interior angles.  *)
(***************************************************************************)
MaxCells == 2
MaxQualityCalls == 2

\* DOLFIN_PI and DOLFIN_PI / 3.0 in units of pi / 12
Pi == 12
OptAngle == 4

CellAngles == {0, 2, 3, 4, 6, 8, 12}
AngleCells == {c \in [1 .. 3 -> CellAngles] : c[1] + c[2] + c[3] = Pi}
AngleMeshes == UNION {[1 .. n -> AngleCells] : n \in 1 .. MaxCells}
AngleMeasures == {"skewness", "maximum_angle"}

\* lines 848-870: e0 = p1 - p0, e1 = p2 - p0, e2 = p2 - p1.  e0 and e1 enclose the
\* angle at p0, e1 and e2 the angle at p2; e0 and e2 enclose the exterior angle at p1
angles_triangle(cell) == <<cell[1], Pi - cell[2], cell[3]>>

\* line 945
SkewnessQual(ang) ==
  RSub(One, RMax({Rat(ang - OptAngle, Pi - OptAngle), Rat(OptAngle - ang, OptAngle)}))

\* line 984
MaximumAngleQual(ang) == RSub(One, RMax({Rat(ang - OptAngle, Pi - OptAngle), Zero}))

\* lines 916-950: the cell function of the skewness scores
skewness(mesh) ==
  [i \in 1 .. Len(mesh) |->
     LET angs == angles_triangle(mesh[i]) IN RMin({SkewnessQual(angs[j]) : j \in 1 .. 3})]

\* lines 955-989: the cell function of the maximum angle scores
maximum_angle(mesh) ==
  [i \in 1 .. Len(mesh) |->
     LET angs == angles_triangle(mesh[i]) IN RMin({MaximumAngleQual(angs[j]) : j \in 1 .. 3})]

RECURSIVE SeqSum(_)
SeqSum(q) == IF Len(q) = 0 THEN Zero ELSE RAdd(q[1], SeqSum(Tail(q)))

\* np.min and np.average of an array
ArrayMin(q) == RMin({q[i] : i \in 1 .. Len(q)})
ArrayAverage(q) == RDiv(SeqSum(q), RInt(Len(q)))

min_skewness(mesh) == ArrayMin(skewness(mesh))
avg_skewness(mesh) == ArrayAverage(maximum_angle(mesh))
min_maximum_angle(mesh) == ArrayMin(maximum_angle(mesh))
avg_maximum_angle(mesh) == ArrayAverage(maximum_angle(mesh))

\* lines 657-685, for the two measures that are computed from the angles
ComputeMeshQuality ==
  /\ quality_calls < MaxQualityCalls
  /\ mesh_quality_measure \in AngleMeasures
  /\ Len(angle_mesh) > 0
  /\ quality_calls' = quality_calls + 1
  /\ quality_result' =
       <<IF mesh_quality_type \in {"min", "minimum"}
           THEN IF mesh_quality_measure = "skewness"
                  THEN min_skewness(angle_mesh)
                  ELSE min_maximum_angle(angle_mesh)
           ELSE IF mesh_quality_measure = "skewness"
                  THEN avg_skewness(angle_mesh)
                  ELSE avg_maximum_angle(angle_mesh)>>
  /\ UNCHANGED <<angle_mesh, mesh_quality_measure, mesh_quality_type, setup_vars, decrease_vars>>
  /\ UNCHANGED <<lbfgs_vars, mesh_vars, pde_vars, remesh_vars>>

(***************************************************************************)
(* Initial states and specifications                                       *)
(***************************************************************************)
\* InnerLBFGS.__init__ with memory_vectors m, maximum_iterations maxit and policy p
SolverAfterConstruction(m, maxit, p) ==
  /\ pc = "idle"
  /\ outcome = "none"
  /\ runs = 0
  /\ steps = 0
  /\ direct_calls = 0
  /\ memory_vectors = m
  /\ maximum_iterations = maxit
  /\ use_bfgs_scaling = p[1]
  /\ soft_exit = p[2]
  /\ atol = p[3][1] /\ rtol = p[3][2] /\ tolerance = p[3][3]
  /\ idx_active = {}
  /\ iteration = 0
  /\ relative_norm = One
  /\ gradients = VecZero
  /\ reduced_gradient = VecZero
  /\ gradients_prev = VecZero
  /\ gradient_norm = Zero
  /\ gradient_norm_initial = Zero
  /\ first_gradient_norm = One
  /\ first_iteration = TRUE
  /\ history_s = <<>>
  /\ history_y = <<>>
  /\ history_rho = <<>>
  /\ storage_y = VecZero
  /\ storage_s = VecZero
  /\ search_directions = VecZero
  /\ directional_derivative = Zero
  /\ stepsize = One
  /\ line_search_broken = FALSE
  /\ flags_at_solve = <<>>
  /\ state_has_solution = FALSE
  /\ adjoint_has_solution = FALSE
  /\ gradient_has_solution = FALSE

\* _MeshHandler.__init__ with the configured volume_change vc
MeshHandlerAfterConstruction(vc) ==
  /\ coordinates = InitialCoordinates
  /\ old_coordinates = Unset
  /\ bbtree = InitialCoordinates
  /\ current_mesh_quality = compute_mesh_quality(InitialCoordinates)
  /\ volume_change = vc
  /\ transformation_container = NoDisplacement
  /\ moves = 0
  /\ move_result = setup_a_priori(vc)
  /\ entry_coordinates = Unset

\* GradientProblem.__init__ beside state and adjoint problems not yet solved
PdeProblemsAfterConstruction ==
  /\ state_solves = 0
  /\ adjoint_solves = 0
  /\ gradient_from = [i \in Controls |-> [state |-> 0, adjoint |-> 0, converged |-> TRUE]]
  /\ ksp_solves = 0
  /\ ksp_reasons = <<>>
  /\ solve_calls = 0
  /\ solve_result = "none"
  /\ exit_reason = 0

\* _MeshHandler.__init__, lines 395-400, in a run that was not started by a remesh
RemeshAfterConstruction(remesh) ==
  /\ do_remesh = remesh
  /\ remesh_counter = Get(FreshRecord.remesh_counter, 0)
  /\ temp_dict = FreshRecord
  /\ disk_record = <<>>
  /\ mesh_files = {0}
  /\ solver_iteration = 0
  /\ solver_gradient_norm_initial = Zero
  /\ output_dict = EmptySeries
  /\ process = 0
  /\ loaded_record = <<>>
  /\ remesh_pc = "out"
  /\ remesh_result = "none"

\* the program started by the user, with or without the flag among its arguments
ProgramStarted(flag) ==
  /\ argv_flag = flag
  /\ imported_mesh = import_mesh(do_remesh, flag, disk_record)

RemeshDisabled == RemeshAfterConstruction(FALSE) /\ ProgramStarted(FALSE)

\* __init__ entered with the options cfg
SetupEntered(cfg) ==
  /\ setup_config = cfg
  /\ setup_pc = "start"
  /\ setup_work = <<>>
  /\ setup_result = "none"

\* __init__ having returned under the fallback options
SetupFinished ==
  /\ setup_config = DefaultConfig
  /\ setup_pc = "done"
  /\ setup_work = <<"radius_ratios">> \o QualityWork(DefaultConfig.measure)
  /\ setup_result = "constructed"

\* a handler of which compute_decreases was not yet called
DecreasesAfterConstruction(ac, beta) ==
  /\ angle_change = ac
  /\ beta_armijo = beta
  /\ decreases = <<>>
  /\ frobenius_solves = 0
  /\ decrease_calls = 0
  /\ decrease_result = "none"

\* a mesh whose quality was not yet computed
QualityNotComputed(mesh, measure, type) ==
  /\ angle_mesh = mesh
  /\ mesh_quality_measure = measure
  /\ mesh_quality_type = type
  /\ quality_result = <<>>
  /\ quality_calls = 0

MeshHandlerIdle ==
  /\ SetupFinished
  /\ DecreasesAfterConstruction(DefaultConfig.angle_change, Two)
  /\ QualityNotComputed(<<>>, DefaultConfig.measure, DefaultConfig.type)

Init ==
  /\ \E m \in MemoryVectors, maxit \in MaximumIterations, p \in Policies :
       SolverAfterConstruction(m, maxit, p)
  /\ MeshHandlerAfterConstruction(Inf)
  /\ PdeProblemsAfterConstruction
  /\ RemeshDisabled
  /\ MeshHandlerIdle

\* histories written into the solver by a test: s, y, rho of each entry
SyntheticHistories ==
  { <<[s |-> IntVec(<<1, 1>>), y |-> IntVec(<<-1, 0>>), rho |-> RInt(-1)]>>,
    <<[s |-> IntVec(<<1, 0>>), y |-> IntVec(<<1, 0>>), rho |-> One]>> }

\* a solver with one memory vector whose history a test has constructed
InitSynthetic ==
  /\ \E maxit \in MaximumIterations, p \in Policies, h \in SyntheticHistories :
       /\ pc = "idle"
       /\ outcome = "none"
       /\ runs = 0
       /\ steps = 0
       /\ direct_calls = 0
       /\ memory_vectors = 1
       /\ maximum_iterations = maxit
       /\ use_bfgs_scaling = p[1]
       /\ soft_exit = p[2]
       /\ atol = p[3][1] /\ rtol = p[3][2] /\ tolerance = p[3][3]
       /\ history_s = [i \in 1 .. Len(h) |-> h[i].s]
       /\ history_y = [i \in 1 .. Len(h) |-> h[i].y]
       /\ history_rho = [i \in 1 .. Len(h) |-> h[i].rho]
  /\ idx_active = {}
  /\ iteration = 0
  /\ relative_norm = One
  /\ gradients = VecZero
  /\ reduced_gradient = VecZero
  /\ gradients_prev = VecZero
  /\ gradient_norm = Zero
  /\ gradient_norm_initial = Zero
  /\ first_gradient_norm = One
  /\ first_iteration = TRUE
  /\ storage_y = VecZero
  /\ storage_s = VecZero
  /\ search_directions = VecZero
  /\ directional_derivative = Zero
  /\ stepsize = One
  /\ line_search_broken = FALSE
  /\ flags_at_solve = <<>>
  /\ state_has_solution = FALSE
  /\ adjoint_has_solution = FALSE
  /\ gradient_has_solution = FALSE
  /\ MeshHandlerAfterConstruction(Inf)
  /\ PdeProblemsAfterConstruction
  /\ RemeshDisabled
  /\ MeshHandlerIdle

\* a mesh handler beside a solver that is not run
InitMesh ==
  /\ SolverAfterConstruction(0, 1, <<FALSE, TRUE, <<One, Zero, Zero>>>>)
  /\ \E vc \in VolumeChanges : MeshHandlerAfterConstruction(vc)
  /\ PdeProblemsAfterConstruction
  /\ RemeshDisabled
  /\ MeshHandlerIdle

\* gradient, state and adjoint problems beside a solver that is not run
InitGradient ==
  /\ \E p \in Policies : SolverAfterConstruction(0, 1, p)
  /\ MeshHandlerAfterConstruction(Inf)
  /\ PdeProblemsAfterConstruction
  /\ RemeshDisabled
  /\ MeshHandlerIdle

Next ==
  \/ \E idx \in ActiveSets, g \in Gradients : Run(idx, g)
  \/ \E idx \in ActiveSets : RunSolveFails(idx)
  \/ Converge
  \/ Direction
  \/ \E t \in StepSizes : LineSearch(t)
  \/ LineSearchFails
  \/ \E g \in Gradients : Update(g)
  \/ UpdateSolveFails
  \/ \E g \in DirectGradients, idx \in ActiveSets : ComputeSearchDirection(g, idx)

NextMesh ==
  \/ \E T \in Transformations : MoveMesh(T)
  \/ \E T \in Transformations : MoveMeshSolveFails(T)
  \/ RevertTransformation

\* a shape optimization run with its mesh handler, the remesh option set or not
InitRemesh ==
  /\ \E p \in Policies : SolverAfterConstruction(0, 1, p)
  /\ MeshHandlerAfterConstruction(Inf)
  /\ PdeProblemsAfterConstruction
  /\ \E remesh \in BOOLEAN, flag \in BOOLEAN :
       /\ remesh => ~flag
       /\ RemeshAfterConstruction(remesh)
       /\ ProgramStarted(flag)
  /\ MeshHandlerIdle

NextRemesh ==
  \/ OuterIteration
  \/ RemeshBegin
  \/ RemeshDump
  \/ RemeshDumpFails
  \/ RemeshExec

\* the constructor of the mesh handler under every configuration
InitSetup ==
  /\ SolverAfterConstruction(0, 1, <<FALSE, TRUE, <<One, Zero, Zero>>>>)
  /\ MeshHandlerAfterConstruction(Inf)
  /\ PdeProblemsAfterConstruction
  /\ RemeshDisabled
  /\ \E cfg \in Configs : SetupEntered(cfg)
  /\ DecreasesAfterConstruction(DefaultConfig.angle_change, Two)
  /\ QualityNotComputed(<<>>, DefaultConfig.measure, DefaultConfig.type)

NextSetup ==
  \/ SetupTolerances
  \/ SetupMeasure
  \/ SetupQuality
  \/ SetupDecrease
  \/ SetupAPriori

\* a constructed mesh handler whose compute_decreases is called by the line search
InitDecrease ==
  /\ SolverAfterConstruction(0, 1, <<FALSE, TRUE, <<One, Zero, Zero>>>>)
  /\ MeshHandlerAfterConstruction(Inf)
  /\ PdeProblemsAfterConstruction
  /\ RemeshDisabled
  /\ SetupFinished
  /\ \E ac \in AngleChanges, beta \in BetaArmijos : DecreasesAfterConstruction(ac, beta)
  /\ QualityNotComputed(<<>>, DefaultConfig.measure, DefaultConfig.type)

NextDecrease ==
  \/ \E t \in DecreaseStepsizes, f \in FrobeniusNorms : ComputeDecreases(t, f)
  \/ ComputeDecreasesSolveFails

\* a constructed mesh handler on a triangular mesh, with an angle based measure
InitQuality ==
  /\ SolverAfterConstruction(0, 1, <<FALSE, TRUE, <<One, Zero, Zero>>>>)
  /\ MeshHandlerAfterConstruction(Inf)
  /\ PdeProblemsAfterConstruction
  /\ RemeshDisabled
  /\ SetupFinished
  /\ DecreasesAfterConstruction(DefaultConfig.angle_change, Two)
  /\ \E mesh \in AngleMeshes, measure \in AngleMeasures, type \in Types :
       QualityNotComputed(mesh, measure, type)

NextQuality == ComputeMeshQuality

NextGradient ==
  \/ InvalidateState
  \/ InvalidateAdjoint
  \/ InvalidateGradient
  \/ \E r \in ReasonSeqs : GradientSolve(r)

vars == <<lbfgs_vars, mesh_vars, pde_vars, remesh_vars, handler_vars>>

Spec == Init /\ [][Next]_vars

SyntheticSpec == InitSynthetic /\ [][Next]_vars

MeshSpec == InitMesh /\ [][NextMesh]_vars

GradientSpec == InitGradient /\ [][NextGradient]_vars

RemeshSpec == InitRemesh /\ [][NextRemesh]_vars

SetupSpec == InitSetup /\ [][NextSetup]_vars

DecreaseSpec == InitDecrease /\ [][NextDecrease]_vars

QualitySpec == InitQuality /\ [][NextQuality]_vars

(***************************************************************************)
(* Properties                                                              *)
(***************************************************************************)
\* C1: with memory_vectors = m > 0 the history never holds more than m entries
\* whenever compute_search_direction reads it (at the head of the loop, or
\* called on its own between two runs) and whenever run returns or ends by
\* SystemExit: an iteration pushes one entry and drops the oldest on overflow.
C1_HistoryBounded ==
  (memory_vectors > 0 /\ outcome # "zero_division") =>
    /\ Len(history_s) <= memory_vectors
    /\ Len(history_y) <= memory_vectors
    /\ Len(history_rho) <= memory_vectors

\* C1, its case: a run with one memory vector has completed two iterations, the
\* second with positive curvature, and the history holds the one newest entry.
C1_Witness ==
  /\ memory_vectors = 1
  /\ iteration = 2
  /\ outcome = "max_iter"
  /\ RLt(Zero, scalar_product(storage_y, storage_s))
  /\ history_s = <<storage_s>>

\* C2: if the update of an inner iteration has <y,s> <= 0, <y,s> = 0 included,
\* then at the end of that iteration the whole history is empty.
C2_CurvatureViolationClears ==
  (memory_vectors > 0 /\ RLe(scalar_product(storage_y, storage_s), Zero)) =>
    /\ Len(history_s) = 0
    /\ Len(history_y) = 0
    /\ Len(history_rho) = 0

\* C3: the direction compute_search_direction returns, for every gradient and
\* every active set, and the direction run passes to the line search, from
\* whichever branch, is exactly 0 at every active index, whatever the history
\* holds.
C3_ActiveIndicesZero ==
  /\ pc = "idle" =>
       \A g \in Gradients, idx \in ActiveSets, j \in Dofs :
         j \in idx => compute_search_direction(g, idx)[j] = Zero
  /\ pc = "search" => \A j \in idx_active : search_directions[j] = Zero

\* C3, its case: the line search is about to get a direction computed from a
\* history whose newest s and y are non-zero at an active index.
C3_Witness ==
  /\ pc = "search"
  /\ Len(history_s) > 0
  /\ \E j \in idx_active : history_s[1][j] # Zero /\ history_y[1][j] # Zero

\* C4: whenever the computed direction has a positive directional derivative it
\* is replaced by -reduced_gradient before the line search, so the direction
\* handed to the line search has <d, reduced_gradient> <= 0.
C4_DescentSafeguard ==
  pc = "search" =>
    /\ RLt(Zero, directional_derivative) => search_directions = VecNeg(reduced_gradient)
    /\ RLe(scalar_product(search_directions, reduced_gradient), Zero)

\* C4, its case: the line search is about to start after a direction with a
\* positive directional derivative was computed.
C4_Witness ==
  /\ pc = "search"
  /\ RLt(Zero, directional_derivative)
  /\ reduced_gradient # VecZero

\* C5: with memory_vectors = 0 or an empty history compute_search_direction
\* returns -grad at every inactive index and 0 at every active index, for every
\* grad and every active set.
C5_SteepestDescentWithoutHistory ==
  (pc = "idle" /\ (memory_vectors = 0 \/ Len(history_s) = 0)) =>
    \A g \in Gradients, idx \in ActiveSets, j \in Dofs :
      compute_search_direction(g, idx)[j] = IF j \in idx THEN Zero ELSE <<-g[j][1], g[j][2]>>

\* C5, its case: a solver without memory was asked for a direction on its own
\* and returned -1 at every index.
C5_Witness ==
  /\ memory_vectors = 0
  /\ direct_calls > 0
  /\ search_directions = IntVec(<<-1, -1>>)

\* C6: in every reachable state, a run ended by an error raised during the
\* history update included, the three history queues have the same length and
\* every rho is 1/<y,s> of the entry at its index.
C6_QueuesAligned ==
  /\ Len(history_s) = Len(history_rho)
  /\ Len(history_y) = Len(history_rho)
  /\ \A i \in 1 .. Len(history_rho) :
       RMul(history_rho[i], scalar_product(history_y[i], history_s[i])) = One

\* C7: an iteration whose update has <y,s> > 0 leaves its (s, y, rho) at the
\* front of the history, followed by the entries stored before in their order,
\* the oldest one dropped when the capacity is exceeded.
C7_MostRecentFirst ==
  [][LET s == VecScale(stepsize, search_directions)
         y == VecSub(reduced_gradient', reduced_gradient)
         kept == IF Len(history_s) < memory_vectors THEN Len(history_s)
                 ELSE memory_vectors - 1
     IN  (/\ pc = "update"
          /\ gradient_has_solution'
          /\ memory_vectors > 0
          /\ RLt(Zero, scalar_product(y, s)))
         => /\ Len(history_s') = kept + 1
            /\ Len(history_y') = kept + 1
            /\ Len(history_rho') = kept + 1
            /\ history_s'[1] = s
            /\ history_y'[1] = y
            /\ RMul(history_rho'[1], scalar_product(y, s)) = One
            /\ \A i \in 1 .. kept :
                 /\ history_s'[i + 1] = history_s[i]
                 /\ history_y'[i + 1] = history_y[i]
                 /\ history_rho'[i + 1] = history_rho[i]
    ]_vars

\* C7, its case: a history of two distinct entries, the newest of them first.
C7_Witness ==
  /\ memory_vectors = 2
  /\ Len(history_s) = 2
  /\ history_s[1] = storage_s
  /\ history_y[1] = storage_y
  /\ history_s[2] # history_s[1]

\* C8: the stopping rule is checked before each iteration: the body is entered
\* only if gradient_norm > atol + rtol*gradient_norm_initial and
\* relative_norm*gradient_norm_initial/first_gradient_norm > tolerance/2, and if
\* a test holds right after the initial solve run returns without a line
\* search, leaving history and iteration counter (0) as they were.
C8_StoppingRuleFirst ==
  [][/\ (pc = "loop" /\ pc' = "search") => (~AbsRelTest /\ ~RestartTest)
     /\ (pc = "loop" /\ iteration = 0 /\ (AbsRelTest \/ RestartTest)) =>
          /\ pc' = "idle"
          /\ iteration' = 0
          /\ steps' = steps
          /\ UNCHANGED history_vars
    ]_vars

\* C8, its case: a run that found a non-zero reduced gradient within the
\* tolerances after its initial solve and returned.
C8_Witness ==
  /\ outcome = "converged"
  /\ pc = "idle"
  /\ iteration = 0
  /\ steps = 0
  /\ gradient_norm # Zero

\* C9: after a failed line search, or once the iteration counter has reached
\* maximum_iterations, run has returned if soft_exit is set and has ended with
\* SystemExit if not, and no further iteration is started.
C9_FailureEndsRun ==
  /\ outcome \in {"armijo", "max_iter"} => pc = (IF soft_exit THEN "idle" ELSE "exited")
  /\ pc \in {"loop", "search", "update"} => (iteration = 0 \/ iteration < maximum_iterations)
  /\ outcome = "max_iter" => (iteration > 0 /\ iteration >= maximum_iterations)

\* C9, its case: the iteration limit was reached without soft_exit.
C9_Witness ==
  /\ outcome = "max_iter"
  /\ ~soft_exit
  /\ iteration = maximum_iterations

\* C10: a move_mesh call whose a priori check fails returns False and leaves
\* the coordinates, the snapshot, the spatial index and the cached mesh quality
\* unchanged.
C10_RejectedAPrioriKeepsMesh ==
  [][\A T \in Transformations :
       (/\ moves' = moves + 1
        /\ move_result' # "error"
        /\ transformation_container' = T
        /\ volume_change # Inf
        /\ \E k \in CellIds :
             \/ RLt(Det(T, k), RDiv(One, volume_change))
             \/ RLt(volume_change, Det(T, k)))
       => /\ move_result' = "False"
          /\ UNCHANGED <<coordinates, old_coordinates, bbtree, current_mesh_quality>>
    ]_vars

\* C10, its case: with volume_change = 2 a transformation that triples the
\* volume of a cell was rejected after an earlier move had been accepted.
C10_Witness ==
  /\ volume_change = Two
  /\ move_result = "False"
  /\ old_coordinates # Unset
  /\ coordinates # old_coordinates
  /\ \E k \in CellIds :
       Rat(CellVolume(Moved(coordinates, transformation_container), Cells[k]),
           CellVolume(coordinates, Cells[k])) = RInt(3)

\* C11: a move_mesh call that passes the a priori check and after which some
\* vertex touches more cells than have it as a vertex restores the coordinates
\* to the snapshot taken before that move, rebuilds the spatial index on them,
\* returns False and leaves the cached mesh quality unchanged.
C11_RolledBackAPosteriori ==
  [][\A T \in Transformations :
       LET moved == Moved(coordinates, T)
       IN  (/\ MoveMesh(T)
            /\ volume_change # Inf =>
                 \A k \in CellIds :
                   RLe(RDiv(One, volume_change), Det(T, k)) /\ RLe(Det(T, k), volume_change)
            /\ \E i \in Vertices :
                 Cardinality(compute_entity_collisions(moved, moved[i]))
                   > Cardinality({k \in CellIds : \E n \in 1 .. 3 : Cells[k][n] = i}))
           => /\ move_result' = "False"
              /\ coordinates' = coordinates
              /\ old_coordinates' = coordinates
              /\ bbtree' = coordinates
              /\ UNCHANGED current_mesh_quality
    ]_vars

\* C11, its case: after an accepted move had changed the mesh, a second move
\* passed the a priori check and was rolled back to the snapshot.
C11_Witness ==
  /\ volume_change = Inf
  /\ moves = 2
  /\ move_result = "False"
  /\ coordinates # InitialCoordinates
  /\ coordinates = old_coordinates
  /\ bbtree = coordinates

\* C12: revert_transformation called right after a move_mesh call that returned
\* True restores the coordinates that call found on entry; a second
\* revert_transformation changes nothing.
C12_RevertRoundTrip ==
  [][/\ (move_result = "True" /\ moves' = moves) =>
          (move_result' = "reverted" /\ coordinates' = entry_coordinates)
     /\ (move_result = "reverted" /\ moves' = moves) =>
          (move_result' = "reverted" /\ UNCHANGED <<coordinates, bbtree, old_coordinates>>)
    ]_vars

\* C12, its case: an accepted move that changed the mesh has been reverted.
C12_Witness ==
  /\ move_result = "reverted"
  /\ coordinates = entry_coordinates
  /\ current_mesh_quality # compute_mesh_quality(coordinates)

\* C13: while no move_mesh call has passed its a priori check there is no
\* snapshot, and revert_transformation then fails with an error and leaves the
\* coordinates unchanged.
C13_RevertNeedsSnapshot ==
  [][(old_coordinates = Unset /\ moves' = moves) =>
       /\ move_result' \in {move_result, "AttributeError"}
       /\ UNCHANGED <<coordinates, bbtree, old_coordinates>>
    ]_vars

\* C13, its case: the first move_mesh was rejected a priori and the
\* revert_transformation that followed failed.
C13_Witness ==
  /\ move_result = "AttributeError"
  /\ moves = 1
  /\ old_coordinates = Unset
  /\ transformation_container # NoDisplacement
  /\ coordinates = InitialCoordinates

\* C14: the a priori check accepts a transformation iff min det >= 1/volume_change
\* and max det <= volume_change over the cells, accepts every transformation
\* when volume_change is infinite, and a handler configured with a finite
\* volume_change <= 1 fails at setup.
C14_APrioriAcceptance ==
  /\ [](\A T \in Transformations :
          move_result \notin Raised =>
            (test_a_priori(T) <=>
               (volume_change # Inf =>
                  \A k \in CellIds :
                    /\ RLe(RDiv(One, volume_change), Det(T, k))
                    /\ RLe(Det(T, k), volume_change))))
  /\ []((volume_change # Inf /\ RLe(volume_change, One)) => move_result = "AssertionError")
  /\ [][(moves' = moves + 1 /\ move_result' \in {"True", "False"} /\ volume_change # Inf) =>
          LET within == \A k \in CellIds :
                          /\ RLe(RDiv(One, volume_change), Det(transformation_container', k))
                          /\ RLe(Det(transformation_container', k), volume_change)
          IN  /\ move_result' = "True" => within
              /\ within => old_coordinates' = coordinates
              /\ ~within => (move_result' = "False" /\ UNCHANGED old_coordinates)
       ]_vars

\* C14, its case: with volume_change = 2 a transformation that halves the
\* volume of a cell, the smallest determinant allowed, was accepted.
C14_Witness ==
  /\ volume_change = Two
  /\ moves = 1
  /\ move_result = "True"
  /\ \E k \in CellIds :
       Rat(CellVolume(coordinates, Cells[k]), CellVolume(old_coordinates, Cells[k])) = Half

(***************************************************************************)
(* C15: has_solution of the gradient problem says that the stored          *)
(* gradients are up to date: whatever flags were invalidated before,       *)
(* whenever solve returns, the gradient of every control component was     *)
(* computed from the state and adjoint solutions that are current then.    *)
(***************************************************************************)
C15_GradientUpToDate ==
  [][(solve_calls' = solve_calls + 1 /\ solve_result' = "returned")
       => \A i \in Controls : /\ gradient_from'[i].state = state_solves'
                              /\ gradient_from'[i].adjoint = adjoint_solves']_vars

(***************************************************************************)
(* C16: the gradient solve is idempotent once solved: a solve call         *)
(* entered with has_solution True performs no linear solve, leaves the     *)
(* gradients as they are and returns with has_solution still True; a call  *)
(* entered with has_solution False that returns has performed exactly one  *)
(* linear solve per control component and set has_solution.                *)
(***************************************************************************)
C16_SolveIdempotent ==
  [][(solve_calls' = solve_calls + 1)
       => /\ gradient_has_solution
               => /\ ksp_solves' = ksp_solves
                  /\ gradient_from' = gradient_from
                  /\ gradient_has_solution'
                  /\ solve_result' = "returned"
          /\ (~gradient_has_solution /\ solve_result' = "returned")
               => /\ ksp_solves' = ksp_solves + Cardinality(Controls)
                  /\ gradient_has_solution']_vars

\* three calls of which the second solved nothing and the third, re-armed, solved again
C16_Witness ==
  /\ solve_calls = 3
  /\ ksp_solves = 2 * Cardinality(Controls)
  /\ ksp_reasons # <<>>
  /\ solve_result = "returned"
  /\ gradient_has_solution

(***************************************************************************)
(* C17: when the linear solver of a control component reports a negative   *)
(* converged reason, solve ends with SystemExit carrying that reason,      *)
(* whatever soft_exit is; no further linear solve is made, has_solution    *)
(* stays False, and has_solution is never True beside a gradient whose     *)
(* solver did not converge.                                                *)
(***************************************************************************)
C17_NonConvergenceFatal ==
  /\ []((\E i \in 1 .. Len(ksp_reasons) : ksp_reasons[i] < 0)
          => /\ solve_result = "SystemExit"
             /\ exit_reason = ksp_reasons[Len(ksp_reasons)]
             /\ exit_reason < 0
             /\ \A i \in 1 .. Len(ksp_reasons) - 1 : ksp_reasons[i] >= 0
             /\ ~gradient_has_solution)
  /\ [](gradient_has_solution => \A i \in Controls : gradient_from[i].converged)
  /\ [][(solve_calls' = solve_calls + 1) => ksp_solves' = ksp_solves + Len(ksp_reasons')]_vars
  /\ [][solve_result = "SystemExit" => UNCHANGED <<pde_vars, flag_vars>>]_vars

\* with soft_exit set, the solver of the second component diverged in a later call
C17_Witness ==
  /\ soft_exit
  /\ solve_calls >= 2
  /\ solve_result = "SystemExit"
  /\ exit_reason = -9
  /\ ksp_reasons = <<2, -9>>
  /\ gradient_from[1].converged
  /\ ~gradient_from[2].converged
  /\ ~gradient_has_solution

(***************************************************************************)
(* C18: a remesh entered while the outer iteration counter of the solver   *)
(* equals the counter in the record fails with an exception; it writes no  *)
(* record to disk and does not replace the process, and neither happens    *)
(* after the failure.                                                      *)
(***************************************************************************)
C18_StallIsFatal ==
  /\ [][(/\ remesh_counter' = remesh_counter + 1
         /\ temp_dict.iteration_counter = solver_iteration)
          => /\ remesh_result' = "Exception"
             /\ remesh_pc' = "out"
             /\ UNCHANGED <<disk_record, process>>]_vars
  /\ [][remesh_result = "Exception" => UNCHANGED <<disk_record, process, remesh_pc>>]_vars

\* the second remesh, right after the restart that the first one made: the record on
\* disk is still the one of the first remesh
C18_Witness ==
  /\ remesh_result = "Exception"
  /\ process = 1
  /\ remesh_counter = 2
  /\ temp_dict.remesh_counter = <<2>>
  /\ disk_record # <<>>
  /\ disk_record = loaded_record
  /\ disk_record[1].remesh_counter = <<1>>
  /\ disk_record[1].iteration_counter = solver_iteration

(***************************************************************************)
(* C19 as stated: with soft_exit set, a remesh entered without progress    *)
(* of the outer iteration returns early instead of failing.                *)
(***************************************************************************)
C19_SoftExitStallReturns ==
  [][(/\ remesh_counter' = remesh_counter + 1
      /\ temp_dict.iteration_counter = solver_iteration
      /\ soft_exit)
       => remesh_result' = "returned"]_vars

(***************************************************************************)
(* C19 as amended: soft_exit has no effect on a remesh stall: with the     *)
(* flag set, a remesh entered without progress of the outer iteration      *)
(* still fails with an exception, and a remesh with the remesh option set  *)
(* never returns to its caller.                                            *)
(***************************************************************************)
C19_StallFatalDespiteSoftExit ==
  /\ [][(/\ remesh_counter' = remesh_counter + 1
         /\ temp_dict.iteration_counter = solver_iteration
         /\ soft_exit)
          => remesh_result' = "Exception"]_vars
  /\ [](do_remesh => remesh_result # "returned")

\* soft_exit set, two iterations made, and the remesh after the restart stalled
C19_Witness ==
  /\ soft_exit
  /\ do_remesh
  /\ remesh_result = "Exception"
  /\ process = 1
  /\ solver_iteration = 2
  /\ temp_dict.iteration_counter = 2

(***************************************************************************)
(* C20: when remesh replaces the process image, temp_dict.json holds the   *)
(* complete record: the incremented remesh counter, the names of the new   *)
(* mesh files, the outer iteration counter, the initial gradient norm, the *)
(* solve counts and the four series without their last entries; its remesh *)
(* counter is one more than that of the record the process had loaded.     *)
(***************************************************************************)
C20_RecordBeforeReplacement ==
  /\ [](remesh_pc = "dumped" => disk_record = <<temp_dict>>)
  /\ [][(process' # process)
          => /\ process' = process + 1
             /\ remesh_pc = "dumped"
             /\ disk_record # <<>>
             /\ disk_record' = disk_record
             /\ LET rec == disk_record[1]
                    previous == IF loaded_record = <<>> THEN 0
                                ELSE loaded_record[1].remesh_counter[1]
                IN  /\ rec.remesh_counter = <<remesh_counter>>
                    /\ rec.remesh_counter[1] = previous + 1
                    /\ rec.mesh_file = remesh_counter
                    /\ rec.gmsh_file = remesh_counter
                    /\ rec.mesh_file \in mesh_files
                    /\ rec.iteration_counter = solver_iteration
                    /\ rec.gradient_norm_initial = solver_gradient_norm_initial
                    /\ rec.output_dict # <<>>
                    /\ rec.output_dict[1].state_solves = state_solves
                    /\ rec.output_dict[1].adjoint_solves = adjoint_solves
                    /\ rec.output_dict[1].iterations = solver_iteration
                    /\ \A n \in SeriesNames :
                         /\ Len(output_dict[n]) > 0
                         /\ rec.output_dict[1].series[n]
                              = [i \in 1 .. Len(output_dict[n]) - 1 |-> output_dict[n][i]]]_vars

\* the second replacement, with a series that keeps an entry after the trimming
C20_Witness ==
  /\ remesh_result = "replaced"
  /\ process = 2
  /\ solver_iteration = 3
  /\ disk_record = loaded_record
  /\ disk_record[1].remesh_counter = <<2>>
  /\ Len(disk_record[1].output_dict[1].series["stepsize"]) = 1
  /\ output_dict = disk_record[1].output_dict[1].series

(***************************************************************************)
(* C21: when the constructor of the mesh handler fails on a configuration  *)
(* invariant, it has computed no mesh quality and solved no projection     *)
(* problem on the mesh.                                                    *)
(***************************************************************************)
C21_SetupFailsFast ==
  setup_result = "AssertionError"
    => \A i \in 1 .. Len(setup_work) : setup_work[i] \notin {"mesh_quality", "projection_solve"}

(***************************************************************************)
(* C22: first_gradient_norm keeps the value of the constructor until the   *)
(* first run call that gets its gradient, is set by that call to the norm  *)
(* of its initial reduced gradient, and is never changed afterwards,       *)
(* whatever the active set and the outcome of the later calls.             *)
(***************************************************************************)
C22_ReferenceNormSetOnce ==
  /\ [](first_iteration => first_gradient_norm = One)
  /\ [][(first_iteration /\ runs' = runs + 1 /\ pc' = "loop")
          => /\ ~first_iteration'
             /\ first_gradient_norm'
                  = scalar_product(ZeroAt(gradients', idx_active'), ZeroAt(gradients', idx_active'))
             /\ first_gradient_norm' = gradient_norm_initial']_vars
  /\ [][~first_iteration => (~first_iteration' /\ UNCHANGED first_gradient_norm)]_vars

\* a second run under another active set, whose initial norm differs from the reference
C22_Witness ==
  /\ runs = 2
  /\ pc = "loop"
  /\ idx_active = {1}
  /\ ~first_iteration
  /\ first_gradient_norm # gradient_norm_initial
  /\ first_gradient_norm # One

(***************************************************************************)
(* C23: the history persists across run calls: entering run leaves it as   *)
(* it is, the first direction of a run that starts with entries is the     *)
(* two-loop recursion over them, and a history with entries becomes empty  *)
(* only in the update of an iteration whose curvature <y, s> is not        *)
(* positive.                                                               *)
(***************************************************************************)
C23_HistoryPersists ==
  /\ [][(runs' = runs + 1) => UNCHANGED history_vars]_vars
  /\ [][(pc = "loop" /\ pc' = "search" /\ iteration = 0 /\ Len(history_s) > 0)
          => LET fwd == ForwardPass(1, ZeroAt(reduced_gradient, idx_active), <<>>)
                 d == VecNeg(ZeroAt(BackwardPass(0, ZeroAt(fwd.d, idx_active),
                                                 fwd.history_alpha), idx_active))
             IN  directional_derivative' = scalar_product(d, reduced_gradient)]_vars
  /\ [][(Len(history_s) > 0 /\ Len(history_s') = 0)
          => /\ pc = "update"
             /\ RLe(scalar_product(storage_y', storage_s'), Zero)]_vars

\* the second run, under another active set, took its first direction from an entry
\* of the first run: it is not the steepest descent direction
C23_Witness ==
  /\ runs = 2
  /\ pc = "search"
  /\ iteration = 0
  /\ Len(history_s) > 0
  /\ idx_active = {1}
  /\ search_directions # VecNeg(reduced_gradient)

(***************************************************************************)
(* C24 as stated: with the single history entry s = [1,0], y = [1,0],      *)
(* rho = 1, scaling disabled, gradient [1,0] and no active index,          *)
(* compute_search_direction yields [0,0] before the final negation.        *)
(***************************************************************************)
C24_ScenarioYieldsZero ==
  [][(/\ ComputeSearchDirection(IntVec(<<1, 0>>), {})
      /\ ~use_bfgs_scaling
      /\ history_s = <<IntVec(<<1, 0>>)>>
      /\ history_y = <<IntVec(<<1, 0>>)>>
      /\ history_rho = <<One>>)
       => VecNeg(search_directions') = VecZero]_vars

(***************************************************************************)
(* C24 as amended: in that scenario the recursion yields [1,0] before the  *)
(* final negation, so that compute_search_direction returns [-1,0].        *)
(***************************************************************************)
C24_ScenarioYieldsGradient ==
  [][(/\ ComputeSearchDirection(IntVec(<<1, 0>>), {})
      /\ ~use_bfgs_scaling
      /\ history_s = <<IntVec(<<1, 0>>)>>
      /\ history_y = <<IntVec(<<1, 0>>)>>
      /\ history_rho = <<One>>)
       => /\ VecNeg(search_directions') = IntVec(<<1, 0>>)
          /\ search_directions' = IntVec(<<-1, 0>>)]_vars

\* the scenario, untouched by any run, after the call
C24_Witness ==
  /\ direct_calls = 1
  /\ steps = 0
  /\ ~use_bfgs_scaling
  /\ history_s = <<IntVec(<<1, 0>>)>>
  /\ history_y = <<IntVec(<<1, 0>>)>>
  /\ history_rho = <<One>>
  /\ search_directions = IntVec(<<-1, 0>>)

(***************************************************************************)
(* C28: with use_bfgs_scaling set and a history with entries, every        *)
(* direction computed after the first ever step is scaled by               *)
(* <y_0, s_0> / <y_0, y_0> of the most recent entry, also the first        *)
(* direction of a later run that starts with entries of an earlier run.    *)
(***************************************************************************)
C28_ScalingAfterFirstStep ==
  [][(/\ pc = "loop" /\ pc' = "search"
      /\ use_bfgs_scaling
      /\ memory_vectors > 0
      /\ Len(history_s) > 0
      /\ steps > 0)
       => LET factor == RDiv(scalar_product(history_y[1], history_s[1]),
                             scalar_product(history_y[1], history_y[1]))
              fwd == ForwardPass(1, ZeroAt(reduced_gradient, idx_active), <<>>)
              d == VecNeg(ZeroAt(BackwardPass(0, ZeroAt(VecScale(factor, fwd.d), idx_active),
                                              fwd.history_alpha), idx_active))
          IN  directional_derivative' = scalar_product(d, reduced_gradient)]_vars

(***************************************************************************)
(* C29 as stated: a run call never performs more than maximum_iterations   *)
(* inner iterations, for every configured value of maximum_iterations.     *)
(***************************************************************************)
C29_AtMostMaximumIterations == iteration <= maximum_iterations

(***************************************************************************)
(* C29 as amended: a run call performs at most max(1, maximum_iterations)  *)
(* inner iterations, the limit being tested only after an iteration has    *)
(* been made, and it ends: every pass through the loop goes from the       *)
(* stopping rule over the line search to the update, where it either       *)
(* leaves run or raises the iteration counter by one below that limit.     *)
(***************************************************************************)
C29_RunEnds ==
  /\ [](iteration <= IF maximum_iterations > 1 THEN maximum_iterations ELSE 1)
  /\ [](pc \in {"loop", "search", "update"}
          => iteration < IF maximum_iterations > 1 THEN maximum_iterations ELSE 1)
  /\ [][/\ pc = "loop" => pc' \in {"loop", "search", "idle"}
        /\ (pc = "loop" /\ pc' = "loop") => vars' = vars
        /\ pc = "search" => pc' \in {"search", "update", "idle", "exited"}
        /\ (pc = "search" /\ pc' = "search") => vars' = vars
        /\ pc = "update" => pc' \in {"update", "loop", "idle", "exited"}
        /\ (pc = "update" /\ pc' = "update") => vars' = vars
        /\ (pc = "update" /\ pc' = "loop") => iteration' = iteration + 1
        /\ (pc \in {"loop", "search"}) => iteration' = iteration]_vars

\* a run ended by the fatal error of the iteration limit after two iterations
C29_Witness ==
  /\ maximum_iterations = 2
  /\ iteration = 2
  /\ outcome = "max_iter"
  /\ pc = "exited"
  /\ ~soft_exit

(***************************************************************************)
(* C30: when the line search reports failure, run stops in that iteration  *)
(* before any update: it returns (soft_exit) or raises, nothing is pushed  *)
(* to the history, the history, the gradients, the reduced gradient,       *)
(* gradient_norm, relative_norm and the iteration counter keep their       *)
(* values, the has_solution flags are not reset, and no update follows.    *)
(***************************************************************************)
C30_LineSearchFailureStops ==
  /\ [][(pc = "search" /\ line_search_broken')
          => /\ pc' = (IF soft_exit THEN "idle" ELSE "exited")
             /\ UNCHANGED <<history_vars, storage_y, storage_s, gradients, gradients_prev,
                            reduced_gradient, gradient_norm, relative_norm, iteration,
                            flag_vars>>]_vars
  /\ [](pc = "update" => ~line_search_broken)

\* the second iteration of a run failed in its line search: the entry of the first
\* iteration is still the only one
C30_Witness ==
  /\ line_search_broken
  /\ outcome = "armijo"
  /\ pc = "idle"
  /\ iteration = 1
  /\ Len(history_s) = 1
  /\ Len(history_rho) = 1
  /\ gradient_has_solution

(***************************************************************************)
(* C25: compute_decreases returns exactly 0, for every search direction    *)
(* and every stepsize, whenever angle_change is infinite, and performs no  *)
(* solve then; for a finite angle_change the returned number of halvings   *)
(* is never negative.                                                      *)
(***************************************************************************)
C25_DecreasesZeroWhenUnrestricted ==
  /\ [][(decrease_calls' = decrease_calls + 1 /\ angle_change = Inf)
          => /\ decreases' = <<Zero>>
             /\ decrease_result' = "returned"
             /\ UNCHANGED frobenius_solves]_vars
  /\ [](\A i \in 1 .. Len(decreases) : RLe(Zero, decreases[i]))

\* two calls under angle_change = inf: both returned 0, no solve was made
C25_Witness ==
  /\ angle_change = Inf
  /\ decrease_calls = 2
  /\ decreases = <<Zero>>
  /\ frobenius_solves = 0

(***************************************************************************)
(* C26: avg_skewness returns the average over all cells of the per-cell    *)
(* skewness score, the score whose minimum min_skewness returns; so the    *)
(* handler's avg / average reduction of the measure skewness is the        *)
(* average of the skewness scores.                                         *)
(***************************************************************************)
C26_AvgSkewnessAveragesSkewness ==
  /\ (quality_calls > 0 /\ mesh_quality_measure = "skewness" /\ mesh_quality_type \in {"avg", "average"})
       => quality_result = <<ArrayAverage(skewness(angle_mesh))>>
  /\ (quality_calls > 0 /\ mesh_quality_measure = "skewness" /\ mesh_quality_type \in {"min", "minimum"})
       => quality_result = <<ArrayMin(skewness(angle_mesh))>>

(***************************************************************************)
(* C27: for every cell whose angles lie in [0, pi] the per-cell skewness   *)
(* score and the per-cell maximum angle score lie in [0, 1] and equal 1    *)
(* when every angle of the cell is the optimal angle; computing the        *)
(* quality again on an unchanged mesh gives the same value; the min and    *)
(* the average over the cells lie in [0, 1].                               *)
(***************************************************************************)
C27_ScoresInUnitInterval ==
  /\ [](\A i \in 1 .. Len(angle_mesh) :
          /\ RLe(Zero, skewness(angle_mesh)[i]) /\ RLe(skewness(angle_mesh)[i], One)
          /\ RLe(Zero, maximum_angle(angle_mesh)[i]) /\ RLe(maximum_angle(angle_mesh)[i], One)
          /\ (\A j \in 1 .. 3 : angle_mesh[i][j] = OptAngle)
               => skewness(angle_mesh)[i] = One /\ maximum_angle(angle_mesh)[i] = One)
  /\ [](\A k \in 1 .. Len(quality_result) : RLe(Zero, quality_result[k]) /\ RLe(quality_result[k], One))
  /\ [][(quality_calls > 0 /\ quality_calls' = quality_calls + 1 /\ angle_mesh' = angle_mesh)
          => quality_result' = quality_result]_vars

C32_RestartLoadsRemeshedMesh ==
  /\ [][process' = process + 1
          => /\ do_remesh /\ argv_flag'
             /\ imported_mesh' = disk_record[1].mesh_file
             /\ imported_mesh' = remesh_counter
             /\ imported_mesh' \in mesh_files
             /\ imported_mesh' # ConfiguredMeshFile]_vars
  /\ []((~do_remesh \/ ~argv_flag) => imported_mesh = ConfiguredMeshFile)

\* the second restart read mesh_2.xdmf
C32_Witness ==
  /\ process = 2
  /\ argv_flag
  /\ imported_mesh = 2

C35_QualityCacheCurrent ==
  move_result \notin Raised
    => /\ current_mesh_quality = compute_mesh_quality(coordinates)
       /\ bbtree = coordinates

(***************************************************************************)
(* C36: with atol >= 0 and rtol >= 0 run never divides by zero when it     *)
(* updates relative_norm = gradient_norm / gradient_norm_initial: an inner *)
(* iteration is executed only if gradient_norm_initial > 0, and a run      *)
(* whose initial reduced gradient is zero returns after zero iterations.   *)
(***************************************************************************)
C36_NoDivisionByZeroNorm ==
  /\ [](pc \in {"search", "update"} => RLt(Zero, gradient_norm_initial))
  /\ [][iteration' = iteration + 1 => RLt(Zero, gradient_norm_initial)]_vars
  /\ [](gradient_norm_initial = Zero => iteration = 0)
  /\ [][(pc = "loop" /\ gradient_norm_initial = Zero /\ pc' # "loop")
          => (pc' = "idle" /\ outcome' = "converged" /\ iteration' = 0)]_vars

\* a second run, under atol = 0, found a zero reduced gradient and returned at once
C36_Witness ==
  /\ runs = 2
  /\ steps > 0
  /\ atol = Zero
  /\ pc = "idle"
  /\ outcome = "converged"
  /\ gradient_norm_initial = Zero
  /\ iteration = 0

====
